---------------------------- MODULE Spec2Model ----------------------------
(***************************************************************************)
(* Model of deno-delay-proxy: the handler chain of handleRequest (main.ts), *)
(* the delay, kill-switch, proxy and not-found handlers, and the two       *)
(* records they keep in Deno KV.  Each request is a task that runs between  *)
(* its await points; the steps of different requests interleave.           *)
(*                                                                         *)
(* Optional values (undefined, an absent KV entry, an omitted field) are   *)
(* sets with at most one element: {} is "absent", {v} is "v".              *)
(***************************************************************************)
EXTENDS Integers, Sequences, FiniteSets, TLC

\* ------------------------------------------------------------------ bounds
MaxDelay == 1          \* posted delay values are 0..MaxDelay
MaxRequests == 2        \* requests handed to handleRequest in one run

\* the request tasks: two requests can be in flight at the same time
Slots == {1, 2}

\* --------------------------------------------------------- optional values
OrElse(opt, default) == IF opt = {} THEN default ELSE CHOOSE v \in opt : TRUE

\* ------------------------------------------------------------- JSON values
Num(n) == [type |-> "number", num |-> n]
Str(s) == [type |-> "string", str |-> s]
Bool(b) == [type |-> "boolean", bool |-> b]
Obj(pairs) == [type |-> "object", obj |-> pairs]

\* ---------------------------------------------------------------- records
DEFAULT_HEADERS == {<<"content-type", "application/json">>}
DEFAULT_BODY == "{\"message\": \"blocked by kill-switch\"}"

DEFAULT_KILL_SWITCH ==
    [enabled |-> FALSE, status |-> 200, headers |-> DEFAULT_HEADERS, body |-> DEFAULT_BODY]

\* the literal fallbacks of KillSwitchHandler.handlePost and ProxyHandler.handleProxy
FALLBACK_KILL_SWITCH ==
    [enabled |-> FALSE, status |-> 503, headers |-> {}, body |-> ""]

JSON_HEADERS == {<<"content-type", "application/json">>}

\* --------------------------------------------------------------- requests
\* a path is the sequence of its segments: "/api/delay" is <<"api", "delay">>,
\* "/swagger/" is <<"swagger", "">>, "/proxy" is <<"proxy">>
PathApiDelay == <<"api", "delay">>
PathApiKillSwitch == <<"api", "kill-switch">>
PathSwaggerJson == <<"swagger", "json">>
PathSwaggerRoot == <<"swagger", "">>
PathSwaggerIndex == <<"swagger", "index.html">>
PathProxyUsers == <<"proxy", "api", "users">>

Paths ==
    { PathApiDelay, PathApiKillSwitch, PathSwaggerJson, PathSwaggerRoot, PathSwaggerIndex,
      <<"proxy">>, <<"unknown-path">> }

\* a faulty variant: startsWith("/proxy"), the closing slash dropped
StartsWithProxyNoSlash(path) == Len(path) >= 1 /\ path[1] = "proxy"

\* String.prototype.startsWith("/proxy/") on the pathname
StartsWithProxy(path) == Len(path) >= 2 /\ path[1] = "proxy"

\* request bodies: text that is not JSON, or a JSON object given by its fields
InvalidJson == [json |-> FALSE]
JsonObject(fields) == [json |-> TRUE, fields |-> fields]

PostedHeaders == {<<"X-Custom", Str("test")>>}

DelayFieldValues == {Num(d) : d \in 0..MaxDelay} \cup {Num(-1), Str("500")}

DelayBodies ==
    {InvalidJson} \cup {JsonObject([delay |-> {}])}
        \cup {JsonObject([delay |-> {v}]) : v \in DelayFieldValues}

KsFields(e, s, h, b) == JsonObject([enabled |-> e, status |-> s, headers |-> h, body |-> b])

\* updates of none of the fields, of enabled alone, of status alone, of all four
\* (the record of main_test.ts), and one that enables the switch with a status no
\* HTTP response can carry
KsValidBodies ==
    { KsFields({}, {}, {}, {}),
      KsFields({Bool(TRUE)}, {}, {}, {}),
      KsFields({Bool(FALSE)}, {}, {}, {}),
      KsFields({}, {Num(503)}, {}, {}),
      KsFields({Bool(TRUE)}, {Num(503)}, {Obj(PostedHeaders)}, {Str("down")}),
      KsFields({Bool(TRUE)}, {Num(700)}, {}, {}) }

KsInvalidBodies ==
    { KsFields({Str("yes")}, {}, {}, {}),
      KsFields({}, {Str("503")}, {}, {}),
      KsFields({}, {}, {Obj({<<"X-Custom", Num(1)>>})}, {}),
      KsFields({}, {}, {}, {Num(5)}) }

KsBodies == {InvalidJson} \cup KsValidBodies \cup KsInvalidBodies

NoBody == InvalidJson

\* every method on the two API paths (POST with each body), GET and POST on the
\* documentation paths and on two paths no handler knows, GET under /proxy/
Requests ==
    { [method |-> m, path |-> p, body |-> NoBody] :
        m \in {"GET", "PUT"}, p \in {PathApiDelay, PathApiKillSwitch} }
    \cup { [method |-> "POST", path |-> PathApiDelay, body |-> b] : b \in DelayBodies }
    \cup { [method |-> "POST", path |-> PathApiKillSwitch, body |-> b] : b \in KsBodies }
    \cup { [method |-> m, path |-> p, body |-> NoBody] :
            m \in {"GET", "POST"}, p \in Paths \ {PathApiDelay, PathApiKillSwitch} }
    \cup { [method |-> "GET", path |-> PathProxyUsers, body |-> NoBody] }

\* the requests of a deployed process: one read and one update of each record,
\* one documentation page of each kind, the path /proxy, and under /proxy/ a POST
\* with a query, a header and a body, and a GET whose path goes on with "//" and
\* a host name
PathProxyOtherHost == <<"proxy", "", "other.host", "x">>

ProxyRequests ==
    { [method |-> "POST", path |-> PathProxyUsers, body |-> JsonObject([name |-> {Str("a")}]),
       search |-> "?x=1", headers |-> {<<"content-type", "application/json">>}],
      [method |-> "GET", path |-> PathProxyOtherHost, body |-> NoBody, search |-> "",
       headers |-> {}] }

ProcessRequests ==
    { [method |-> "GET", path |-> p, body |-> NoBody] :
        p \in {PathApiDelay, PathApiKillSwitch, PathSwaggerJson, PathSwaggerRoot,
               <<"proxy">>} }
    \cup { [method |-> "POST", path |-> PathApiDelay,
            body |-> JsonObject([delay |-> {Num(MaxDelay)}])],
           [method |-> "POST", path |-> PathApiKillSwitch,
            body |-> KsFields({Bool(TRUE)}, {Num(503)}, {Obj(PostedHeaders)}, {Str("down")})] }
    \cup ProxyRequests

NoRequest == [method |-> "", path |-> <<>>, body |-> NoBody]


\* ------------------------------------------------------------- validation
\* a faulty variant: z.number().optional(), the .min(0) dropped
IsAnyNumber(opt) == \A v \in opt : v.type = "number"

\* z.number().min(0).optional()
IsNonNegativeNumber(opt) == \A v \in opt : v.type = "number" /\ v.num >= 0
\* z.number().optional()
IsNumber(opt) == \A v \in opt : v.type = "number"
\* z.boolean().optional()
IsBoolean(opt) == \A v \in opt : v.type = "boolean"
\* z.string().optional()
IsString(opt) == \A v \in opt : v.type = "string"
\* z.record(z.string()).optional()
IsStringRecord(opt) ==
    \A v \in opt : v.type = "object" /\ \A p \in v.obj : p[2].type = "string"

\* DelayDto.safeParse: the fields that fail, and the parsed data
DelayDtoIssues(fields) == IF IsNonNegativeNumber(fields.delay) THEN {} ELSE {"delay"}

DelayDtoData(fields) == [delay |-> {v.num : v \in fields.delay}]

\* KillSwitchDto.safeParse
KillSwitchDtoIssues(fields) ==
    (IF IsBoolean(fields.enabled) THEN {} ELSE {"enabled"})
        \cup (IF IsNumber(fields.status) THEN {} ELSE {"status"})
        \cup (IF IsStringRecord(fields.headers) THEN {} ELSE {"headers"})
        \cup (IF IsString(fields.body) THEN {} ELSE {"body"})

KillSwitchDtoData(fields) ==
    [ enabled |-> {v.bool : v \in fields.enabled},
      status |-> {v.num : v \in fields.status},
      headers |-> {{<<p[1], p[2].str>> : p \in v.obj} : v \in fields.headers},
      body |-> {v.str : v \in fields.body} ]

NoData == [none |-> TRUE]

\* ---------------------------------------------------------------- results
Ok(v) == [ok |-> TRUE, value |-> {v}]
Err == [ok |-> FALSE, value |-> {}]

\* -------------------------------------------------------------- responses
NoResponse == [kind |-> "none"]
\* the promise of handleRequest rejects: an exception left a handler
Rejected(error) == [kind |-> "rejected", error |-> error]
Json(value) == [json |-> value]
Text(s) == [text |-> s]

NullBodyStatus == {101, 103, 204, 205, 304}

\* new Response(body, {status, headers}) with a body that is not null: the
\* constructor throws for a status outside 200..599 (101 apart) and for a
\* null-body status
NewResponse(body, status, headers) ==
    IF (status < 200 \/ status > 599) /\ status # 101
        THEN Rejected("RangeError")
    ELSE IF status \in NullBodyStatus
        THEN Rejected("TypeError")
    ELSE [kind |-> "response", status |-> status, headers |-> headers, body |-> body]

JsonResponse(value, status) == NewResponse(Json(value), status, JSON_HEADERS)

\* ------------------------------------------------------------------ state
VARIABLES
    kv,            \* Deno KV: [delay, ks], each absent ({}) or one stored value
    started,       \* requests handed to handleRequest so far
    pc,            \* where each request task stands
    req,           \* the Request of each task
    tried,         \* the handlers handleRequest has invoked for it, in order
    data,          \* validationResult.data of a POST
    ksLoad,        \* the Result of the task's killSwitchRepository.load()
    delayLoad,     \* the Result of the task's delayRepository.load(0)
    newState,      \* the value a POST is about to save
    elapsed,       \* milliseconds the task has spent in its setTimeout
    resp,          \* what handleRequest answered
    trace,         \* the task's calls to the store, the logger, the timer, upstream
    seen,          \* history: what the store held when the task loaded each record
    acked,         \* history: the last update of each record answered with 200
    saved,         \* history: the value of the last kv.set that succeeded, per key
    env,           \* Deno.env of the process: UPSTREAM and DELAY, each unset ({}) or set
    upstream,      \* the task's fetch: the call's arguments, and what came of it
    carried,       \* history: per key, what was last saved when the process restarted,
                   \* until the key is saved again
    killSwitchState,  \* src/main.ts only: its module-level kill-switch record
    mainDelayMs       \* src/main.ts only: its module-level delayMs

vars ==
    <<kv, started, pc, req, tried, data, ksLoad, delayLoad, newState, elapsed, resp, trace,
      seen, acked, saved, env, upstream, carried, killSwitchState, mainDelayMs>>

\* a URL: its origin (scheme and host), the segments of its path, its query
Url(scheme, host, path, search) ==
    [scheme |-> scheme, host |-> host, path |-> path, search |-> search]

\* the value of UPSTREAM in the examples: http://up.local
UpLocal == Url("http", "up.local", <<>>, "")

\* no fetch called yet
NoFetch == [call |-> {}, answer |-> {}, failed |-> FALSE]

NoSeen == [ks |-> {}, delay |-> {}, acked |-> {}, ksIo |-> {}, delayIo |-> {}]

\* where a process is started: with UPSTREAM and DELAY set on an empty store,
\* with neither set on an empty store, and with UPSTREAM set on a store in which
\* an earlier run has saved a delay (DELAY is read by no line, so a run with it
\* set differs from a run without it in nothing else)
Deployments ==
    { [env |-> [UPSTREAM |-> {UpLocal}, DELAY |-> {MaxDelay}], kv |-> [delay |-> {}, ks |-> {}]],
      [env |-> [UPSTREAM |-> {}, DELAY |-> {}], kv |-> [delay |-> {}, ks |-> {}]],
      [env |-> [UPSTREAM |-> {UpLocal}, DELAY |-> {}],
       kv |-> [delay |-> {MaxDelay}, ks |-> {}]] }

\* no task runs: the process has come to Deno.serve, or has just restarted
NoTasks(pcs, reqs, trieds, datas, ksLoads, delayLoads, newStates, elapseds, resps, traces, seens, upstreams) ==
    /\ pcs = [r \in Slots |-> "idle"]
    /\ reqs = [r \in Slots |-> NoRequest]
    /\ trieds = [r \in Slots |-> <<>>]
    /\ datas = [r \in Slots |-> NoData]
    /\ ksLoads = [r \in Slots |-> {}]
    /\ delayLoads = [r \in Slots |-> {}]
    /\ newStates = [r \in Slots |-> {}]
    /\ elapseds = [r \in Slots |-> 0]
    /\ resps = [r \in Slots |-> NoResponse]
    /\ traces = [r \in Slots |-> <<>>]
    /\ seens = [r \in Slots |-> NoSeen]
    /\ upstreams = [r \in Slots |-> NoFetch]

Init ==
    /\ kv = [delay |-> {}, ks |-> {}]
    /\ started = 0
    /\ pc = [r \in Slots |-> "idle"]
    /\ req = [r \in Slots |-> NoRequest]
    /\ tried = [r \in Slots |-> <<>>]
    /\ data = [r \in Slots |-> NoData]
    /\ ksLoad = [r \in Slots |-> {}]
    /\ delayLoad = [r \in Slots |-> {}]
    /\ newState = [r \in Slots |-> {}]
    /\ elapsed = [r \in Slots |-> 0]
    /\ resp = [r \in Slots |-> NoResponse]
    /\ trace = [r \in Slots |-> <<>>]
    /\ seen = [r \in Slots |-> NoSeen]
    /\ acked = [delay |-> {}, ks |-> {}]
    /\ saved = [delay |-> {}, ks |-> {}]
    /\ env = [UPSTREAM |-> {UpLocal}, DELAY |-> {}]
    /\ upstream = [r \in Slots |-> NoFetch]
    /\ carried = [delay |-> {}, ks |-> {}]
    /\ killSwitchState = DEFAULT_KILL_SWITCH
    /\ mainDelayMs = 0

\* ------------------------------------------------------------------ store
\* DelayEntity.load(defaultDelay): Result.try(kv.get), the error handed back,
\* else value ?? defaultDelay
DelayEntityLoad(ioOk, defaultDelay) ==
    IF ioOk THEN Ok(OrElse(kv.delay, defaultDelay)) ELSE Err

\* DelayRepository.load(defaultDelay): the class the handlers import, with the
\* body of DelayEntity.load
DelayRepositoryLoad(ioOk, defaultDelay) == DelayEntityLoad(ioOk, defaultDelay)

\* a faulty variant: the load hands back the stored record with the status of
\* the default record
KillSwitchRepositoryLoadMixes(ioOk) ==
    IF ioOk
        THEN Ok([OrElse(kv.ks, DEFAULT_KILL_SWITCH) EXCEPT !.status = DEFAULT_KILL_SWITCH.status])
        ELSE Err

\* a faulty variant: a failed kv.get is swallowed into the default
KillSwitchRepositoryLoadSwallows(ioOk) == Ok(OrElse(IF ioOk THEN kv.ks ELSE {}, DEFAULT_KILL_SWITCH))

\* a faulty variant: the load hands back the default whatever is stored
KillSwitchRepositoryLoadDefault(ioOk) == IF ioOk THEN Ok(DEFAULT_KILL_SWITCH) ELSE Err

\* KillSwitchRepository.load(): kv.get, then value ?? DEFAULT_KILL_SWITCH
KillSwitchRepositoryLoad(ioOk) ==
    IF ioOk THEN Ok(OrElse(kv.ks, DEFAULT_KILL_SWITCH)) ELSE Err

\* a faulty variant: the entry is written only when the key holds nothing
DelayEntitySaveIfAbsent(ioOk, delay) ==
    IF ioOk /\ kv.delay = {} THEN [kv EXCEPT !.delay = {delay}] ELSE kv

\* DelayEntity.save(delay): Result.try(kv.set) overwrites the entry, or fails and
\* leaves it
DelayEntitySave(ioOk, delay) ==
    IF ioOk THEN [kv EXCEPT !.delay = {delay}] ELSE kv

\* DelayRepository.save(delay): with the body of DelayEntity.save
DelayRepositorySave(ioOk, delay) == DelayEntitySave(ioOk, delay)

\* a faulty variant: the save reports success and writes nothing
KillSwitchRepositorySaveNothing(ioOk, state) == kv

\* a faulty variant: the save writes both keys, the delay back to its default
KillSwitchRepositorySaveBothKeys(ioOk, state) ==
    IF ioOk THEN [delay |-> {0}, ks |-> {state}] ELSE kv

\* KillSwitchRepository.save(data)
KillSwitchRepositorySave(ioOk, state) ==
    IF ioOk THEN [kv EXCEPT !.ks = {state}] ELSE kv


\* ------------------------------------------------------------ handler chain
\* a faulty variant: the not-found handler placed before the proxy handler
HandlerChainNotFoundEarly ==
    <<"swagger", "swaggerUi", "killSwitch", "delay", "notFound", "proxy">>

\* the order in which handleRequest tries the handlers
HandlerChain == <<"swagger", "swaggerUi", "killSwitch", "delay", "proxy", "notFound">>

\* SwaggerHandler.handle answers GET /swagger/json
SwaggerMatches(q) == ~(q.path # PathSwaggerJson \/ q.method # "GET")

\* a faulty variant: every GET under /swagger/ is answered
SwaggerUiMatchesUnderSwagger(q) ==
    q.method = "GET" /\ Len(q.path) >= 1 /\ q.path[1] = "swagger"

\* SwaggerUiHandler.handle answers GET /swagger/ and GET /swagger/index.html
SwaggerUiMatches(q) ==
    /\ ~(q.method # "GET")
    /\ (q.path = PathSwaggerRoot \/ q.path = PathSwaggerIndex)

\* KillSwitchHandler.handle answers POST and GET /api/kill-switch
KillSwitchMatches(q) ==
    \/ (q.path = PathApiKillSwitch /\ q.method = "POST")
    \/ (q.path = PathApiKillSwitch /\ q.method = "GET")

\* a faulty variant: every method on /api/delay is answered
DelayMatchesAnyMethod(q) == q.path = PathApiDelay

\* DelayHandler.handle answers POST and GET /api/delay
DelayMatches(q) ==
    \/ (q.path = PathApiDelay /\ q.method = "POST")
    \/ (q.path = PathApiDelay /\ q.method = "GET")

\* ProxyHandler.handle answers every path under /proxy/
ProxyMatches(q) == ~(~StartsWithProxy(q.path))

\* NotFoundHandler.handle answers everything
NotFoundMatches(q) == TRUE

\* whether handler h returns a Response (not null) for request q
Matches(h, q) ==
    CASE h = "swagger" -> SwaggerMatches(q)
      [] h = "swaggerUi" -> SwaggerUiMatches(q)
      [] h = "killSwitch" -> KillSwitchMatches(q)
      [] h = "delay" -> DelayMatches(q)
      [] h = "proxy" -> ProxyMatches(q)
      [] h = "notFound" -> NotFoundMatches(q)

\* the handlers handleRequest invokes from position i on: it returns at the first
\* one whose response is not null, and the not-found handler closes the chain
RECURSIVE TryFrom(_, _)
TryFrom(i, q) ==
    IF i >= Len(HandlerChain) \/ Matches(HandlerChain[i], q)
        THEN <<HandlerChain[i]>>
        ELSE <<HandlerChain[i]>> \o TryFrom(i + 1, q)

Last(seq) == seq[Len(seq)]

\* the handler whose response handleRequest returns
Dispatch(q) == Last(TryFrom(1, q))

\* the run of handleRequest's chain on each request
Route == [q \in Requests \cup ProcessRequests |-> TryFrom(1, q)]

\* the requests each handler ends up answering
Routed == [h \in {HandlerChain[i] : i \in DOMAIN HandlerChain} |-> {q \in Requests : Dispatch(q) = h}]

\* the same for the requests of a deployed process
ProcessRouted ==
    [h \in {HandlerChain[i] : i \in DOMAIN HandlerChain} |->
        {q \in ProcessRequests : Dispatch(q) = h}]

\* a faulty variant: no request is taken while a task sits in its delay
AcceptBetweenDelays(r, q) ==
    /\ pc[r] = "idle"
    /\ \A other \in Slots : other < r => pc[other] # "idle"
    /\ \A other \in Slots : pc[other] # "sleep"
    /\ started < MaxRequests
    /\ started' = started + 1
    /\ req' = [req EXCEPT ![r] = q]
    /\ tried' = [tried EXCEPT ![r] = Route[q]]

\* handleRequest(req) is called on an idle task
Accept(r, q) ==
    /\ pc[r] = "idle"
    /\ \A other \in Slots : other < r => pc[other] # "idle"
    /\ started < MaxRequests
    /\ started' = started + 1
    /\ req' = [req EXCEPT ![r] = q]
    /\ tried' = [tried EXCEPT ![r] = Route[q]]

\* the task ends with its answer
Answer(r, response) ==
    /\ pc' = [pc EXCEPT ![r] = "done"]
    /\ resp' = [resp EXCEPT ![r] = response]

Log(r, events) == trace' = [trace EXCEPT ![r] = trace[r] \o events]


\* ------------------------------------------------------ documentation, 404
\* SwaggerHandler.handle: reads docs/swagger.json and serves it; a failed read
\* throws out of handleRequest
SwaggerHandle(r, q) ==
    /\ Accept(r, q)
    /\ Dispatch(q) = "swagger"
    /\ \E fileOk \in BOOLEAN :
        Answer(r, IF fileOk THEN JsonResponse([openapi |-> "spec"], 200)
                  ELSE Rejected("NotFound"))
    /\ UNCHANGED <<kv, data, ksLoad, delayLoad, newState, elapsed, trace, seen, acked, saved, env, killSwitchState, mainDelayMs, upstream, carried>>

\* SwaggerUiHandler.handle / serveHtml
SwaggerUiHandle(r, q) ==
    /\ Accept(r, q)
    /\ Dispatch(q) = "swaggerUi"
    /\ Answer(r, NewResponse(Text("swagger-ui html"), 200,
                             {<<"content-type", "text/html; charset=utf-8">>}))
    /\ UNCHANGED <<kv, data, ksLoad, delayLoad, newState, elapsed, trace, seen, acked, saved, env, killSwitchState, mainDelayMs, upstream, carried>>

\* NotFoundHandler.handle
NotFoundHandle(r, q) ==
    /\ Accept(r, q)
    /\ Dispatch(q) = "notFound"
    /\ Answer(r, JsonResponse([error |-> "Not found"], 404))
    /\ UNCHANGED <<kv, data, ksLoad, delayLoad, newState, elapsed, trace, seen, acked, saved, env, killSwitchState, mainDelayMs, upstream, carried>>

\* ------------------------------------------------------------ delay handler
\* DelayHandler.handle up to its first store call: handlePost parses and
\* validates the body, handleGet goes straight to the load
DelayHandle(r, q) ==
    /\ Accept(r, q)
    /\ Dispatch(q) = "delay"
    /\ IF q.method = "POST"
        THEN IF ~q.body.json
                THEN /\ Answer(r, JsonResponse([error |-> "Invalid JSON body"], 400))
                     /\ UNCHANGED data
             ELSE IF DelayDtoIssues(q.body.fields) # {}
                THEN /\ Answer(r, JsonResponse([error |-> "Invalid request body",
                                                details |-> DelayDtoIssues(q.body.fields)], 400))
                     /\ UNCHANGED data
             ELSE /\ pc' = [pc EXCEPT ![r] = "delayPostLoad"]
                  /\ data' = [data EXCEPT ![r] = DelayDtoData(q.body.fields)]
                  /\ UNCHANGED resp
        ELSE /\ pc' = [pc EXCEPT ![r] = "delayGetLoad"]
             /\ UNCHANGED <<data, resp>>
    /\ UNCHANGED <<kv, ksLoad, delayLoad, newState, elapsed, trace, seen, acked, saved, env, killSwitchState, mainDelayMs, upstream, carried>>

\* a faulty variant: validationResult.data.delay ?? 0
EffectiveDelayNoCurrent(dto, currentState) == OrElse(dto.delay, 0)

\* validationResult.data.delay ?? currentState.value ?? 0
EffectiveDelay(dto, currentState) == OrElse(dto.delay, OrElse(currentState.value, 0))

\* handlePost: const currentState = await this.repository.load(0)
DelayPostLoad(r) ==
    /\ pc[r] = "delayPostLoad"
    /\ \E ioOk \in BOOLEAN :
        LET currentState == DelayRepositoryLoad(ioOk, 0) IN
        /\ delayLoad' = [delayLoad EXCEPT ![r] = {currentState}]
        /\ seen' = [seen EXCEPT ![r].delay = kv.delay, ![r].acked = acked.delay, ![r].delayIo = {ioOk}]
        /\ newState' = [newState EXCEPT ![r] = {EffectiveDelay(data[r], currentState)}]
    /\ Log(r, <<"kv.get:delay">>)
    /\ pc' = [pc EXCEPT ![r] = "delayPostSave"]
    /\ UNCHANGED <<kv, started, req, tried, data, ksLoad, elapsed, resp, acked, saved, env, killSwitchState, mainDelayMs, upstream, carried>>

\* handlePost: await this.repository.save(delay), the log of its outcome, the 200
DelayPostSave(r) ==
    /\ pc[r] = "delayPostSave"
    /\ LET delay == OrElse(newState[r], 0) IN
       \E ioOk \in BOOLEAN :
        /\ kv' = DelayRepositorySave(ioOk, delay)
        /\ Log(r, <<"kv.set:delay",
                    IF ioOk THEN "info:delay-updated" ELSE "error:delay-save-failed">>)
        /\ Answer(r, JsonResponse([success |-> TRUE, delay |-> delay], 200))
        /\ acked' = [acked EXCEPT !.delay =
                        {[value |-> delay, given |-> data[r].delay # {}, saved |-> ioOk]}]
        /\ saved' = IF ioOk THEN [saved EXCEPT !.delay = {delay}] ELSE saved
        /\ carried' = IF ioOk THEN [carried EXCEPT !.delay = {}] ELSE carried
    /\ UNCHANGED <<started, req, tried, data, ksLoad, delayLoad, newState, elapsed, seen,
                   env, killSwitchState, mainDelayMs, upstream>>

\* a faulty variant: the fold answers the default, not the loaded delay
DelayGetResponseDefault(result) ==
    IF result.ok
        THEN JsonResponse([delay |-> 0], 200)
        ELSE JsonResponse([error |-> "Failed to load delay"], 500)

\* result.fold of handleGet
DelayGetResponse(result) ==
    IF result.ok
        THEN JsonResponse([delay |-> OrElse(result.value, 0)], 200)
        ELSE JsonResponse([error |-> "Failed to load delay"], 500)

\* a faulty variant: the handler keeps the delay it last answered a POST with
\* and answers a GET from that copy
DelayGetLoadFromCopy(r) ==
    /\ pc[r] = "delayGetLoad"
    /\ \E ioOk \in BOOLEAN :
        LET loaded == DelayRepositoryLoad(ioOk, 0)
            result == IF acked.delay = {} THEN loaded
                      ELSE Ok((CHOOSE a \in acked.delay : TRUE).value) IN
        /\ delayLoad' = [delayLoad EXCEPT ![r] = {loaded}]
        /\ seen' = [seen EXCEPT ![r].delay = kv.delay, ![r].acked = acked.delay, ![r].delayIo = {ioOk}]
        /\ Answer(r, DelayGetResponse(result))
    /\ Log(r, <<"kv.get:delay">>)
    /\ UNCHANGED <<kv, started, req, tried, data, ksLoad, newState, elapsed, acked, saved, env, killSwitchState, mainDelayMs, upstream, carried>>

\* handleGet: await this.repository.load(0), then the fold
DelayGetLoad(r) ==
    /\ pc[r] = "delayGetLoad"
    /\ \E ioOk \in BOOLEAN :
        LET result == DelayRepositoryLoad(ioOk, 0) IN
        /\ delayLoad' = [delayLoad EXCEPT ![r] = {result}]
        /\ seen' = [seen EXCEPT ![r].delay = kv.delay, ![r].acked = acked.delay, ![r].delayIo = {ioOk}]
        /\ Answer(r, DelayGetResponse(result))
    /\ Log(r, <<"kv.get:delay">>)
    /\ UNCHANGED <<kv, started, req, tried, data, ksLoad, newState, elapsed, acked, saved, env, killSwitchState, mainDelayMs, upstream, carried>>


\* ------------------------------------------------------ kill-switch handler
\* a faulty variant: a body that fails validation is answered like a GET, with
\* the record read from the store
KillSwitchHandleReadsOnIssues(r, q) ==
    /\ Accept(r, q)
    /\ Dispatch(q) = "killSwitch"
    /\ IF q.method = "POST"
        THEN IF ~q.body.json
                THEN /\ Answer(r, JsonResponse([error |-> "Invalid JSON body"], 400))
                     /\ UNCHANGED data
             ELSE IF KillSwitchDtoIssues(q.body.fields) # {}
                THEN /\ pc' = [pc EXCEPT ![r] = "ksGetLoad"]
                     /\ UNCHANGED <<data, resp>>
             ELSE /\ pc' = [pc EXCEPT ![r] = "ksPostLoad"]
                  /\ data' = [data EXCEPT ![r] = KillSwitchDtoData(q.body.fields)]
                  /\ UNCHANGED resp
        ELSE /\ pc' = [pc EXCEPT ![r] = "ksGetLoad"]
             /\ UNCHANGED <<data, resp>>
    /\ UNCHANGED <<kv, ksLoad, delayLoad, newState, elapsed, trace, seen, acked, saved, env, killSwitchState, mainDelayMs, upstream, carried>>

\* KillSwitchHandler.handle up to its first store call
KillSwitchHandle(r, q) ==
    /\ Accept(r, q)
    /\ Dispatch(q) = "killSwitch"
    /\ IF q.method = "POST"
        THEN IF ~q.body.json
                THEN /\ Answer(r, JsonResponse([error |-> "Invalid JSON body"], 400))
                     /\ UNCHANGED data
             ELSE IF KillSwitchDtoIssues(q.body.fields) # {}
                THEN /\ Answer(r, JsonResponse([error |-> "Invalid request body",
                                                details |-> KillSwitchDtoIssues(q.body.fields)], 400))
                     /\ UNCHANGED data
             ELSE /\ pc' = [pc EXCEPT ![r] = "ksPostLoad"]
                  /\ data' = [data EXCEPT ![r] = KillSwitchDtoData(q.body.fields)]
                  /\ UNCHANGED resp
        ELSE /\ pc' = [pc EXCEPT ![r] = "ksGetLoad"]
             /\ UNCHANGED <<data, resp>>
    /\ UNCHANGED <<kv, ksLoad, delayLoad, newState, elapsed, trace, seen, acked, saved, env, killSwitchState, mainDelayMs, upstream, carried>>

\* a faulty variant: a full replacement, every omitted field set to its literal
MergeKillSwitchReplace(dto, currentState) ==
    [ enabled |-> OrElse(dto.enabled, FALLBACK_KILL_SWITCH.enabled),
      status |-> OrElse(dto.status, FALLBACK_KILL_SWITCH.status),
      headers |-> OrElse(dto.headers, FALLBACK_KILL_SWITCH.headers),
      body |-> OrElse(dto.body, FALLBACK_KILL_SWITCH.body) ]

\* the newState of handlePost: field ?? currentState.value?.field ?? literal
MergeKillSwitch(dto, currentState) ==
    [ enabled |-> OrElse(dto.enabled,
                         OrElse({c.enabled : c \in currentState.value}, FALLBACK_KILL_SWITCH.enabled)),
      status |-> OrElse(dto.status,
                        OrElse({c.status : c \in currentState.value}, FALLBACK_KILL_SWITCH.status)),
      headers |-> OrElse(dto.headers,
                         OrElse({c.headers : c \in currentState.value}, FALLBACK_KILL_SWITCH.headers)),
      body |-> OrElse(dto.body,
                      OrElse({c.body : c \in currentState.value}, FALLBACK_KILL_SWITCH.body)) ]

\* handlePost: const currentState = await this.repository.load(), then newState
KillSwitchPostLoad(r) ==
    /\ pc[r] = "ksPostLoad"
    /\ \E ioOk \in BOOLEAN :
        LET currentState == KillSwitchRepositoryLoad(ioOk) IN
        /\ ksLoad' = [ksLoad EXCEPT ![r] = {currentState}]
        /\ seen' = [seen EXCEPT ![r].ks = kv.ks, ![r].acked = acked.ks, ![r].ksIo = {ioOk}]
        /\ newState' = [newState EXCEPT ![r] = {MergeKillSwitch(data[r], currentState)}]
    /\ Log(r, <<"kv.get:kill-switch">>)
    /\ pc' = [pc EXCEPT ![r] = "ksPostSave"]
    /\ UNCHANGED <<kv, started, req, tried, data, delayLoad, elapsed, resp, acked, saved, env, killSwitchState, mainDelayMs, upstream, carried>>

AllGiven(dto) ==
    dto.enabled # {} /\ dto.status # {} /\ dto.headers # {} /\ dto.body # {}

\* a faulty variant: a failed save is answered 500
KillSwitchPostSaveSurfacesFailure(r) ==
    /\ pc[r] = "ksPostSave"
    /\ LET state == OrElse(newState[r], FALLBACK_KILL_SWITCH) IN
       \E ioOk \in BOOLEAN :
        /\ kv' = KillSwitchRepositorySave(ioOk, state)
        /\ Log(r, <<"kv.set:kill-switch",
                    IF ioOk THEN "info:kill-switch-updated" ELSE "error:kill-switch-save-failed">>)
        /\ Answer(r, IF ioOk THEN JsonResponse([success |-> TRUE, state |-> state], 200)
                     ELSE JsonResponse([error |-> "Failed to save state"], 500))
        /\ acked' = [acked EXCEPT !.ks =
                        {[value |-> state, given |-> AllGiven(data[r]), saved |-> ioOk]}]
        /\ saved' = IF ioOk THEN [saved EXCEPT !.ks = {state}] ELSE saved
        /\ carried' = IF ioOk THEN [carried EXCEPT !.ks = {}] ELSE carried
    /\ UNCHANGED <<started, req, tried, data, ksLoad, delayLoad, newState, elapsed, seen,
                   env, killSwitchState, mainDelayMs, upstream>>

\* handlePost: await this.repository.save(newState), the log of its outcome, the 200
KillSwitchPostSave(r) ==
    /\ pc[r] = "ksPostSave"
    /\ LET state == OrElse(newState[r], FALLBACK_KILL_SWITCH) IN
       \E ioOk \in BOOLEAN :
        /\ kv' = KillSwitchRepositorySave(ioOk, state)
        /\ Log(r, <<"kv.set:kill-switch",
                    IF ioOk THEN "info:kill-switch-updated" ELSE "error:kill-switch-save-failed">>)
        /\ Answer(r, JsonResponse([success |-> TRUE, state |-> state], 200))
        /\ acked' = [acked EXCEPT !.ks =
                        {[value |-> state, given |-> AllGiven(data[r]), saved |-> ioOk]}]
        /\ saved' = IF ioOk THEN [saved EXCEPT !.ks = {state}] ELSE saved
        /\ carried' = IF ioOk THEN [carried EXCEPT !.ks = {}] ELSE carried
    /\ UNCHANGED <<started, req, tried, data, ksLoad, delayLoad, newState, elapsed, seen,
                   env, killSwitchState, mainDelayMs, upstream>>

\* a faulty variant: a failed load is answered 200 with the literal record
KillSwitchGetResponseFallback(result) ==
    JsonResponse(OrElse(result.value, FALLBACK_KILL_SWITCH), 200)

\* result.fold of handleGet
KillSwitchGetResponse(result) ==
    IF result.ok
        THEN JsonResponse(OrElse(result.value, FALLBACK_KILL_SWITCH), 200)
        ELSE JsonResponse([error |-> "Failed to load state"], 500)

\* a faulty variant: a read that finds no record writes the default one
KillSwitchGetLoadCreates(r) ==
    /\ pc[r] = "ksGetLoad"
    /\ \E ioOk \in BOOLEAN :
        LET result == KillSwitchRepositoryLoad(ioOk) IN
        /\ ksLoad' = [ksLoad EXCEPT ![r] = {result}]
        /\ seen' = [seen EXCEPT ![r].ks = kv.ks, ![r].acked = acked.ks, ![r].ksIo = {ioOk}]
        /\ kv' = IF ioOk /\ kv.ks = {} THEN [kv EXCEPT !.ks = {DEFAULT_KILL_SWITCH}] ELSE kv
        /\ Answer(r, KillSwitchGetResponse(result))
    /\ Log(r, <<"kv.get:kill-switch">>)
    /\ UNCHANGED <<started, req, tried, data, delayLoad, newState, elapsed, acked, saved, env, killSwitchState, mainDelayMs, upstream, carried>>

\* handleGet: await this.repository.load(), then the fold
KillSwitchGetLoad(r) ==
    /\ pc[r] = "ksGetLoad"
    /\ \E ioOk \in BOOLEAN :
        LET result == KillSwitchRepositoryLoad(ioOk) IN
        /\ ksLoad' = [ksLoad EXCEPT ![r] = {result}]
        /\ seen' = [seen EXCEPT ![r].ks = kv.ks, ![r].acked = acked.ks, ![r].ksIo = {ioOk}]
        /\ Answer(r, KillSwitchGetResponse(result))
    /\ Log(r, <<"kv.get:kill-switch">>)
    /\ UNCHANGED <<kv, started, req, tried, data, delayLoad, newState, elapsed, acked, saved, env, killSwitchState, mainDelayMs, upstream, carried>>


\* ------------------------------------------------------------ proxy handler
\* what upstream may answer
UpstreamResponses ==
    { [kind |-> "response", status |-> st, headers |-> {<<"x-upstream", "1">>},
       body |-> Text("upstream body")] : st \in {200, 404} }

TheResult(load) == CHOOSE res \in load : TRUE

\* a faulty variant: the loaded record is dropped for the literal
KillSwitchDataLiteral(load) == FALLBACK_KILL_SWITCH

\* const killSwitchData = killSwitchResult.value ?? { enabled: false, status: 503, ... }
KillSwitchData(load) == OrElse(TheResult(load).value, FALLBACK_KILL_SWITCH)

\* const delayMs = delayResult.value ?? 0
DelayMs(load) == OrElse(TheResult(load).value, 0)

\* url.search and req.headers of a request; the requests of the API examples
\* carry neither
UrlSearch(q) == IF "search" \in DOMAIN q THEN q.search ELSE ""
RequestHeaders(q) == IF "headers" \in DOMAIN q THEN q.headers ELSE {}

\* a faulty variant: the pathname is forwarded as it came
StripProxyNothing(path) == path

\* url.pathname.replace(/^\/proxy/, ""): the leading "/proxy" is cut off
StripProxy(path) == IF Len(path) >= 1 /\ path[1] = "proxy" THEN Tail(path) ELSE path

\* new URL(targetPath + url.search, base) for a targetPath that starts with "/":
\* the path replaces the path of the base; a reference that starts with "//"
\* and a host replaces the host of the base as well
NewURL(targetPath, search, base) ==
    IF Len(targetPath) >= 2 /\ targetPath[1] = "" /\ targetPath[2] # ""
        THEN Url(base.scheme, targetPath[2], SubSeq(targetPath, 3, Len(targetPath)), search)
        ELSE Url(base.scheme, base.host, targetPath, search)

\* const targetUrl = new URL(targetPath + url.search, this.upstream)
TargetUrl(q, base) == NewURL(StripProxy(q.path), UrlSearch(q), base)

\* a faulty variant: the request goes upstream as a GET with no headers or body
FetchCallBare(q, base) ==
    [url |-> TargetUrl(q, base), method |-> "GET", headers |-> {}, body |-> NoBody]

\* fetch(targetUrl, { method: req.method, headers: req.headers, body: req.body })
FetchCall(q, base) ==
    [url |-> TargetUrl(q, base), method |-> q.method, headers |-> RequestHeaders(q),
     body |-> q.body]

\* ProxyHandler.handle: the path test, then handleProxy starts both loads
ProxyHandle(r, q) ==
    /\ Accept(r, q)
    /\ Dispatch(q) = "proxy"
    /\ pc' = [pc EXCEPT ![r] = "proxyLoad"]
    /\ UNCHANGED <<kv, data, ksLoad, delayLoad, newState, elapsed, resp, trace, seen, acked, saved, env, killSwitchState, mainDelayMs, upstream, carried>>

\* handleProxy once Promise.all has both results: new URL throws when UPSTREAM
\* is undefined; else the request log, then either the timer (kill-switch not
\* enabled) or the configured response
ProxyLoaded(r, ksResult, delayResult, events) ==
    LET killSwitchData == KillSwitchData(ksResult) IN
    IF env.UPSTREAM = {}
        THEN /\ Log(r, events)
             /\ Answer(r, Rejected("TypeError"))
    ELSE IF ~killSwitchData.enabled
        THEN /\ Log(r, events \o <<"log:request", "setTimeout">>)
             /\ pc' = [pc EXCEPT ![r] = "sleep"]
             /\ UNCHANGED resp
        ELSE /\ Log(r, events \o <<"log:request", "log:response:killed">>)
             /\ Answer(r, NewResponse(Text(killSwitchData.body), killSwitchData.status,
                                      killSwitchData.headers))

\* this.killSwitchRepository.load() of Promise.all completes
ProxyLoadKillSwitch(r) ==
    /\ pc[r] = "proxyLoad"
    /\ ksLoad[r] = {}
    /\ \E ioOk \in BOOLEAN :
        LET result == KillSwitchRepositoryLoad(ioOk) IN
        /\ ksLoad' = [ksLoad EXCEPT ![r] = {result}]
        /\ seen' = [seen EXCEPT ![r].ks = kv.ks, ![r].ksIo = {ioOk}]
        /\ IF delayLoad[r] = {}
            THEN Log(r, <<"kv.get:kill-switch">>) /\ UNCHANGED <<pc, resp>>
            ELSE ProxyLoaded(r, {result}, delayLoad[r], <<"kv.get:kill-switch">>)
    /\ UNCHANGED <<kv, started, req, tried, data, delayLoad, newState, elapsed, acked, saved, env, killSwitchState, mainDelayMs, upstream, carried>>

\* this.delayRepository.load(0) of Promise.all completes
ProxyLoadDelay(r) ==
    /\ pc[r] = "proxyLoad"
    /\ delayLoad[r] = {}
    /\ \E ioOk \in BOOLEAN :
        LET result == DelayRepositoryLoad(ioOk, 0) IN
        /\ delayLoad' = [delayLoad EXCEPT ![r] = {result}]
        /\ seen' = [seen EXCEPT ![r].delay = kv.delay, ![r].delayIo = {ioOk}]
        /\ IF ksLoad[r] = {}
            THEN Log(r, <<"kv.get:delay">>) /\ UNCHANGED <<pc, resp>>
            ELSE ProxyLoaded(r, ksLoad[r], {result}, <<"kv.get:delay">>)
    /\ UNCHANGED <<kv, started, req, tried, data, ksLoad, newState, elapsed, acked, saved, env, killSwitchState, mainDelayMs, upstream, carried>>

\* a millisecond passes for a task inside its setTimeout
Tick(r) ==
    /\ pc[r] = "sleep"
    /\ elapsed[r] < DelayMs(delayLoad[r])
    /\ elapsed' = [elapsed EXCEPT ![r] = elapsed[r] + 1]
    /\ UNCHANGED <<kv, started, pc, req, tried, data, ksLoad, delayLoad, newState, resp, trace,
                   seen, acked, saved, env, killSwitchState, mainDelayMs, upstream, carried>>

\* a faulty variant: the timer calls back at once
TimerDueAtOnce(waited, delayMs) == TRUE

\* setTimeout(resolve, delayMs) calls back no earlier than delayMs after it was set
TimerDue(waited, delayMs) == waited >= delayMs

\* a faulty variant: the record is read again when the timer resolves
ProxyDelayElapsedRereads(r) ==
    /\ pc[r] = "sleep"
    /\ TimerDue(elapsed[r], DelayMs(delayLoad[r]))
    /\ LET killSwitchData == OrElse(kv.ks, DEFAULT_KILL_SWITCH) IN
       IF killSwitchData.enabled
        THEN /\ Log(r, <<"kv.get:kill-switch", "log:response:killed">>)
             /\ Answer(r, NewResponse(Text(killSwitchData.body), killSwitchData.status,
                                      killSwitchData.headers))
        ELSE /\ Log(r, <<"kv.get:kill-switch", "fetch">>)
             /\ pc' = [pc EXCEPT ![r] = "fetch"]
             /\ UNCHANGED resp
    /\ upstream' = [upstream EXCEPT ![r].call =
                        IF pc'[r] = "fetch" THEN {FetchCall(req[r], OrElse(env.UPSTREAM, UpLocal))}
                        ELSE {}]
    /\ UNCHANGED <<kv, started, req, tried, data, ksLoad, delayLoad, newState, elapsed,
                   seen, acked, saved, env, killSwitchState, mainDelayMs, carried>>

\* the timer resolves; killSwitchData.enabled is still false, so fetch is called
ProxyDelayElapsed(r) ==
    /\ pc[r] = "sleep"
    /\ TimerDue(elapsed[r], DelayMs(delayLoad[r]))
    /\ ~KillSwitchData(ksLoad[r]).enabled
    /\ Log(r, <<"fetch">>)
    /\ pc' = [pc EXCEPT ![r] = "fetch"]
    /\ \E base \in env.UPSTREAM :
        upstream' = [upstream EXCEPT ![r].call = {FetchCall(req[r], base)}]
    /\ UNCHANGED <<kv, started, req, tried, data, ksLoad, delayLoad, newState, elapsed, resp,
                   seen, acked, saved, env, killSwitchState, mainDelayMs, carried>>

\* upstream answers: the response log, then new Response(response.body,
\* { status, statusText, headers }) handed back
ProxyFetchReturns(r) ==
    /\ pc[r] = "fetch"
    /\ \E response \in UpstreamResponses :
        /\ Answer(r, NewResponse(response.body, response.status, response.headers))
        /\ upstream' = [upstream EXCEPT ![r].answer = {response}]
    /\ Log(r, <<"log:response">>)
    /\ UNCHANGED <<kv, started, req, tried, data, ksLoad, delayLoad, newState, elapsed,
                   seen, acked, saved, env, killSwitchState, mainDelayMs, carried>>

\* a faulty variant: a fetch that rejects is called again
ProxyFetchFailsRetries(r) ==
    /\ pc[r] = "fetch"
    /\ Len(trace[r]) < 8
    /\ Log(r, <<"fetch">>)
    /\ UNCHANGED <<kv, started, pc, req, tried, data, ksLoad, delayLoad, newState, elapsed,
                   resp, seen, acked, saved, env, killSwitchState, mainDelayMs, upstream, carried>>

\* fetch rejects (connection refused, ...): the exception leaves handleRequest
ProxyFetchFails(r) ==
    /\ pc[r] = "fetch"
    /\ Answer(r, Rejected("fetch failed"))
    /\ upstream' = [upstream EXCEPT ![r].failed = TRUE]
    /\ UNCHANGED <<kv, started, req, tried, data, ksLoad, delayLoad, newState, elapsed, trace,
                   seen, acked, saved, env, killSwitchState, mainDelayMs, carried>>

\* ---------------------------------------------------------------- the server
\* what Deno.serve sends to the client: the Response of the handler, or, when
\* the handler's promise rejects and no onError is given, 500 Internal Server Error
Served(response) ==
    IF response.kind = "rejected"
        THEN [kind |-> "response", status |-> 500, headers |-> {},
              body |-> Text("Internal Server Error")]
        ELSE response

\* Deno.serve hands a new request to handleRequest
HandleRequest(r) ==
    /\ pc[r] = "idle"
    /\ started < MaxRequests
    /\ \/ \E q \in Routed["swagger"] : SwaggerHandle(r, q)
       \/ \E q \in Routed["swaggerUi"] : SwaggerUiHandle(r, q)
       \/ \E q \in Routed["killSwitch"] : KillSwitchHandle(r, q)
       \/ \E q \in Routed["delay"] : DelayHandle(r, q)
       \/ \E q \in Routed["proxy"] : ProxyHandle(r, q)
       \/ \E q \in Routed["notFound"] : NotFoundHandle(r, q)

\* the answer has left; the task's locals are gone
Finish(r) ==
    /\ pc[r] = "done"
    /\ pc' = [pc EXCEPT ![r] = "idle"]
    /\ req' = [req EXCEPT ![r] = NoRequest]
    /\ tried' = [tried EXCEPT ![r] = <<>>]
    /\ data' = [data EXCEPT ![r] = NoData]
    /\ ksLoad' = [ksLoad EXCEPT ![r] = {}]
    /\ delayLoad' = [delayLoad EXCEPT ![r] = {}]
    /\ newState' = [newState EXCEPT ![r] = {}]
    /\ elapsed' = [elapsed EXCEPT ![r] = 0]
    /\ resp' = [resp EXCEPT ![r] = NoResponse]
    /\ trace' = [trace EXCEPT ![r] = <<>>]
    /\ seen' = [seen EXCEPT ![r] = NoSeen]
    /\ upstream' = [upstream EXCEPT ![r] = NoFetch]
    /\ UNCHANGED <<kv, started, acked, saved, env, killSwitchState, mainDelayMs, carried>>

\* a faulty variant: the store is opened anew and empty at every start
RestartWithEmptyStore ==
    /\ started > 0
    /\ NoTasks(pc', req', tried', data', ksLoad', delayLoad', newState', elapsed', resp',
               trace', seen', upstream')
    /\ kv' = [delay |-> {}, ks |-> {}]
    /\ carried' = [delay |-> {saved.delay}, ks |-> {saved.ks}]
    /\ UNCHANGED <<started, acked, saved, env, killSwitchState, mainDelayMs>>

\* the process is stopped and started again on the same store: the tasks in
\* flight are gone, main runs to Deno.serve (its two loads are only logged)
Restart ==
    /\ started > 0
    /\ NoTasks(pc', req', tried', data', ksLoad', delayLoad', newState', elapsed', resp',
               trace', seen', upstream')
    /\ carried' = [delay |-> {saved.delay}, ks |-> {saved.ks}]
    /\ UNCHANGED <<kv, started, acked, saved, env, killSwitchState, mainDelayMs>>

\* Deno.serve hands a request of the deployed process to handleRequest
HandleProcessRequest(r) ==
    /\ pc[r] = "idle"
    /\ started < MaxRequests
    /\ \/ \E q \in ProcessRouted["swagger"] : SwaggerHandle(r, q)
       \/ \E q \in ProcessRouted["swaggerUi"] : SwaggerUiHandle(r, q)
       \/ \E q \in ProcessRouted["killSwitch"] : KillSwitchHandle(r, q)
       \/ \E q \in ProcessRouted["delay"] : DelayHandle(r, q)
       \/ \E q \in ProcessRouted["proxy"] : ProxyHandle(r, q)
       \/ \E q \in ProcessRouted["notFound"] : NotFoundHandle(r, q)

Next ==
    \E r \in Slots :
        \/ HandleRequest(r)
        \/ DelayPostLoad(r)
        \/ DelayPostSave(r)
        \/ DelayGetLoad(r)
        \/ KillSwitchPostLoad(r)
        \/ KillSwitchPostSave(r)
        \/ KillSwitchGetLoad(r)
        \/ ProxyLoadKillSwitch(r)
        \/ ProxyLoadDelay(r)
        \/ Tick(r)
        \/ ProxyDelayElapsed(r)
        \/ ProxyFetchReturns(r)
        \/ ProxyFetchFails(r)
        \/ Finish(r)

Spec == Init /\ [][Next]_vars

\* a process started in any environment, and restarted at any time
InitProcess ==
    /\ \E d \in Deployments :
        /\ env = d.env
        /\ kv = d.kv
        /\ saved = d.kv
    /\ started = 0
    /\ NoTasks(pc, req, tried, data, ksLoad, delayLoad, newState, elapsed, resp, trace, seen,
               upstream)
    /\ acked = [delay |-> {}, ks |-> {}]
    /\ carried = [delay |-> {}, ks |-> {}]
    /\ killSwitchState = DEFAULT_KILL_SWITCH
    /\ mainDelayMs = 0

NextProcess ==
    \/ Restart
    \/ \E r \in Slots :
        \/ HandleProcessRequest(r)
        \/ DelayPostLoad(r)
        \/ DelayPostSave(r)
        \/ DelayGetLoad(r)
        \/ KillSwitchPostLoad(r)
        \/ KillSwitchPostSave(r)
        \/ KillSwitchGetLoad(r)
        \/ ProxyLoadKillSwitch(r)
        \/ ProxyLoadDelay(r)
        \/ Tick(r)
        \/ ProxyDelayElapsed(r)
        \/ ProxyFetchReturns(r)
        \/ ProxyFetchFails(r)
        \/ Finish(r)

SpecProcess == InitProcess /\ [][NextProcess]_vars


\* ================================================================== claims
IsRequest(r, method, path) == req[r].method = method /\ req[r].path = path

\* the body of a 200 or 4xx/5xx JSON response
IsJsonResponse(response, status, value) ==
    /\ response.kind = "response"
    /\ response.status = status
    /\ response.body = Json(value)

LoadedOk(load) == load # {} /\ \A res \in load : res.ok

\* the delay a load of the store yields for what the store holds
StoredDelay(entry) == OrElse(entry, 0)

\* the record a load of the store yields for what the store holds
StoredKillSwitch(entry) ==
    OrElse(entry, [enabled |-> FALSE, status |-> 200,
                   headers |-> {<<"content-type", "application/json">>},
                   body |-> "{\"message\": \"blocked by kill-switch\"}"])

\* ------------------------------------------------------------------- C1
\* C1 as stated: a GET /api/delay whose load comes after a POST /api/delay
\* {delay: d} was answered 200, with no delay update in between, returns 200
\* {delay: d}.
C1_GetAfterPostReturnsPosted ==
    \A r \in Slots :
        (pc[r] = "done" /\ IsRequest(r, "GET", PathApiDelay)) =>
            \A a \in seen[r].acked :
                a.given => IsJsonResponse(resp[r], 200, [delay |-> a.value])

\* C1 amended: the same, when the save of that POST succeeded and the load of
\* the GET succeeds.
C1_GetAfterSavedPostReturnsPosted ==
    \A r \in Slots :
        (pc[r] = "done" /\ IsRequest(r, "GET", PathApiDelay)) =>
            \A a \in seen[r].acked :
                (a.given /\ a.saved /\ LoadedOk(delayLoad[r])) =>
                    IsJsonResponse(resp[r], 200, [delay |-> a.value])

C1_Witness ==
    \E r \in Slots :
        /\ pc[r] = "done"
        /\ IsRequest(r, "GET", PathApiDelay)
        /\ seen[r].acked = {[value |-> MaxDelay, given |-> TRUE, saved |-> TRUE]}
        /\ LoadedOk(delayLoad[r])
        /\ resp[r].status = 200

\* ------------------------------------------------------------------- C2
PostsEmptyDelay(r) ==
    /\ IsRequest(r, "POST", PathApiDelay)
    /\ req[r].body = JsonObject([delay |-> {}])

BadDelayBody(body) ==
    \/ ~body.json
    \/ \E v \in body.fields.delay : v.type # "number" \/ v.num < 0

\* C3: a POST /api/delay with such a body is answered 400 in the step that
\* receives it, without a call to the store: both records are as they were.
C3_InvalidDelayPostTouchesNothing ==
    [][\A r \in Slots :
        (pc[r] = "idle" /\ pc'[r] # "idle" /\ req'[r].method = "POST"
            /\ req'[r].path = PathApiDelay /\ BadDelayBody(req'[r].body)) =>
            /\ pc'[r] = "done"
            /\ resp'[r].kind = "response"
            /\ resp'[r].status = 400
            /\ trace'[r] = <<>>
            /\ kv' = kv]_vars

C3_Witness ==
    \E r \in Slots :
        /\ pc[r] = "done"
        /\ IsRequest(r, "POST", PathApiDelay)
        /\ req[r].body = JsonObject([delay |-> {Num(-1)}])
        /\ resp[r].status = 400
        /\ kv.delay = {MaxDelay}


\* ------------------------------------------------------------------- C4
KsFieldNames == {"enabled", "status", "headers", "body"}

CompletesKillSwitchPost(r) ==
    /\ IsRequest(r, "POST", PathApiKillSwitch)
    /\ pc[r] = "ksPostSave"
    /\ pc'[r] = "done"

PostedRecord(body) ==
    [ enabled |-> (CHOOSE v \in body.fields.enabled : TRUE).bool,
      status |-> (CHOOSE v \in body.fields.status : TRUE).num,
      headers |-> {<<p[1], p[2].str>> : p \in (CHOOSE v \in body.fields.headers : TRUE).obj},
      body |-> (CHOOSE v \in body.fields.body : TRUE).str ]

PostsAllFour(r) ==
    /\ IsRequest(r, "POST", PathApiKillSwitch)
    /\ req[r].body \in KsValidBodies
    /\ \A f \in KsFieldNames : req[r].body.fields[f] # {}

IsProxyRequest(r) == Len(req[r].path) >= 2 /\ req[r].path[1] = "proxy"

Happened(r, event) == \E i \in DOMAIN trace[r] : trace[r][i] = event

\* C6: a /proxy/ request whose load of the kill-switch record returned a record
\* with enabled=true answers, once both its loads are back, with exactly that
\* record's status, headers and body, and sets no timer and calls no fetch.
C6_EnabledRecordIsTheResponse ==
    \A r \in Slots :
        (IsProxyRequest(r) /\ LoadedOk(ksLoad[r]) /\ delayLoad[r] # {}) =>
            \A res \in ksLoad[r] : \A record \in res.value :
                record.enabled =>
                    /\ pc[r] = "done"
                    /\ resp[r] = [kind |-> "response", status |-> record.status,
                                  headers |-> record.headers, body |-> Text(record.body)]
                    /\ ~Happened(r, "setTimeout")
                    /\ ~Happened(r, "fetch")

\* ------------------------------------------------------------------- C7
StoredEnabled == \E record \in kv.ks : record.enabled

\* C7 as stated: in no state in which the stored kill-switch record has
\* enabled=true does a /proxy/ request start an upstream fetch.
C7_NoFetchWhileStoredEnabled ==
    [][\A r \in Slots :
        (IsProxyRequest(r) /\ StoredEnabled /\ pc[r] # "fetch") => pc'[r] # "fetch"]_vars

\* C7 amended: a /proxy/ request whose load of the kill-switch record succeeded
\* while the stored record had enabled=true never waits and never starts a fetch.
C7_NoFetchAfterLoadingEnabled ==
    \A r \in Slots :
        (IsProxyRequest(r) /\ LoadedOk(ksLoad[r])
            /\ \E record \in seen[r].ks : record.enabled) =>
            /\ pc[r] \in {"proxyLoad", "done"}
            /\ ~Happened(r, "setTimeout")
            /\ ~Happened(r, "fetch")

C7_Witness ==
    \E r \in Slots :
        /\ IsProxyRequest(r)
        /\ pc[r] = "done"
        /\ LoadedOk(ksLoad[r])
        /\ \E record \in seen[r].ks : record.enabled
        /\ StoredEnabled
        /\ Happened(r, "log:response:killed")
        /\ resp[r].kind = "response"
        /\ resp[r].status = 503

\* ------------------------------------------------------------------- C8
\* C8 as stated: a /proxy/ request that has called fetch has first waited at
\* least the delay that was stored when it read the store.
C8_WaitsStoredDelay ==
    \A r \in Slots :
        (IsProxyRequest(r) /\ Happened(r, "fetch")) =>
            elapsed[r] >= StoredDelay(seen[r].delay)

\* C8 amended: a /proxy/ request that has called fetch has first waited at least
\* the delay it loaded: the stored delay when its load of the delay succeeded, 0
\* when that load failed.
C8_WaitsLoadedDelay ==
    \A r \in Slots :
        (IsProxyRequest(r) /\ Happened(r, "fetch")) =>
            elapsed[r] >=
                (IF LoadedOk(delayLoad[r]) THEN StoredDelay(seen[r].delay) ELSE 0)

C8_Witness ==
    \E r \in Slots :
        /\ IsProxyRequest(r)
        /\ pc[r] = "done"
        /\ Happened(r, "fetch")
        /\ LoadedOk(delayLoad[r])
        /\ seen[r].delay = {MaxDelay}
        /\ elapsed[r] = MaxDelay
        /\ resp[r].kind = "response"

\* ------------------------------------------------------------------- C9
IsDocumentation(q) ==
    /\ q.method = "GET"
    /\ q.path \in {<<"swagger", "json">>, <<"swagger", "">>, <<"swagger", "index.html">>}

OutsideApiAndProxy(q) ==
    /\ q.path # <<"api", "delay">>
    /\ q.path # <<"api", "kill-switch">>
    /\ ~(Len(q.path) >= 2 /\ q.path[1] = "proxy")

IsNotFound(r) ==
    /\ pc[r] = "done"
    /\ IsJsonResponse(resp[r], 404, [error |-> "Not found"])

\* C9 as stated: every request on a path that is not /api/delay, not
\* /api/kill-switch and not under /proxy/ is answered 404 {"error":"Not found"}.
C9_OtherPathsNotFound ==
    \A r \in Slots :
        (pc[r] # "idle" /\ OutsideApiAndProxy(req[r])) => IsNotFound(r)

\* C9 amended: the same for every such request that is not a GET of
\* /swagger/json, /swagger/ or /swagger/index.html.
C9_OtherPathsButDocumentationNotFound ==
    \A r \in Slots :
        (pc[r] # "idle" /\ OutsideApiAndProxy(req[r]) /\ ~IsDocumentation(req[r])) =>
            IsNotFound(r)

C9_Witness ==
    \E r \in Slots : \E other \in Slots :
        /\ req[r] = [method |-> "GET", path |-> <<"proxy">>, body |-> NoBody]
        /\ IsNotFound(r)
        /\ req[other] = [method |-> "POST", path |-> <<"swagger", "json">>, body |-> NoBody]
        /\ IsNotFound(other)

\* ------------------------------------------------------------------ C10
HandlerOrder == <<"swagger", "swaggerUi", "killSwitch", "delay", "proxy", "notFound">>

\* the requests each handler answers, by method and path
Answers(h, q) ==
    CASE h = "swagger" -> q.method = "GET" /\ q.path = <<"swagger", "json">>
      [] h = "swaggerUi" ->
            q.method = "GET" /\ q.path \in {<<"swagger", "">>, <<"swagger", "index.html">>}
      [] h = "killSwitch" -> q.method \in {"GET", "POST"} /\ q.path = <<"api", "kill-switch">>
      [] h = "delay" -> q.method \in {"GET", "POST"} /\ q.path = <<"api", "delay">>
      [] h = "proxy" -> Len(q.path) >= 2 /\ q.path[1] = "proxy"
      [] h = "notFound" -> TRUE

\* what tells the work and the response of handler h on task r
RespondsAs(h, r) ==
    CASE h = "swagger" ->
            pc[r] = "done" /\ (resp[r].kind = "rejected" \/ resp[r].status = 200)
      [] h = "swaggerUi" ->
            pc[r] = "done" /\ resp[r].body = Text("swagger-ui html")
      [] h = "killSwitch" ->
            /\ pc[r] \in {"ksPostLoad", "ksPostSave", "ksGetLoad", "done"}
            /\ \A i \in DOMAIN trace[r] :
                trace[r][i] \in {"kv.get:kill-switch", "kv.set:kill-switch",
                                 "info:kill-switch-updated", "error:kill-switch-save-failed"}
            /\ pc[r] = "done" => resp[r].status \in {200, 400, 500}
      [] h = "delay" ->
            /\ pc[r] \in {"delayPostLoad", "delayPostSave", "delayGetLoad", "done"}
            /\ \A i \in DOMAIN trace[r] :
                trace[r][i] \in {"kv.get:delay", "kv.set:delay",
                                 "info:delay-updated", "error:delay-save-failed"}
            /\ pc[r] = "done" => resp[r].status \in {200, 400, 500}
      [] h = "proxy" ->
            /\ pc[r] \in {"proxyLoad", "sleep", "fetch", "done"}
            /\ (pc[r] = "done" /\ resp[r].kind = "response") =>
                    (Happened(r, "log:response") \/ Happened(r, "log:response:killed"))
      [] h = "notFound" -> IsNotFound(r)

\* C10: the handlers handleRequest has invoked for a request are an initial part
\* of the order Swagger JSON, Swagger UI, kill-switch, delay, proxy, not-found;
\* every one but the last answered null, the last is the first in the order that
\* answers the request, and the work and response of the task are that handler's.
C10_FirstHandlerInOrderAnswers ==
    \A r \in Slots :
        pc[r] # "idle" =>
            LET n == Len(tried[r]) IN
            /\ n \in 1..Len(HandlerOrder)
            /\ \A i \in 1..n : tried[r][i] = HandlerOrder[i]
            /\ \A i \in 1..(n - 1) : ~Answers(HandlerOrder[i], req[r])
            /\ Answers(HandlerOrder[n], req[r])
            /\ RespondsAs(HandlerOrder[n], r)

C10_Witness ==
    \E r \in Slots : \E other \in Slots :
        /\ pc[r] = "fetch"
        /\ tried[r] = <<"swagger", "swaggerUi", "killSwitch", "delay", "proxy">>
        /\ pc[other] = "delayPostSave"
        /\ tried[other] = <<"swagger", "swaggerUi", "killSwitch", "delay">>

\* ------------------------------------------------------------------ C11
BeforeNotFound == {"swagger", "swaggerUi", "killSwitch", "delay", "proxy"}

\* every order in which the five handlers can stand before the not-found handler
Orderings ==
    {order \in [1..5 -> BeforeNotFound] : \A i, j \in 1..5 : order[i] = order[j] => i = j}

\* the handler that answers q when the handlers are tried in the given order
FirstIn(order, q) ==
    LET hits == {i \in 1..5 : Matches(order[i], q)} IN
    IF hits = {} THEN "notFound"
    ELSE order[CHOOSE i \in hits : \A j \in hits : i <= j]

\* <<q, h>> for every request q and every handler h that answers q in some
\* order of the five
AnsweringIn == {<<q, FirstIn(order, q)>> : q \in Requests, order \in Orderings}

\* C11: for the request of every task at most one of the Swagger JSON, Swagger
\* UI, kill-switch, delay and proxy handlers returns a response, and in every
\* order of these five before the not-found handler the handler that answers
\* is the one that answers in handleRequest.
C11_HandlersDisjoint ==
    \A r \in Slots :
        pc[r] # "idle" =>
            /\ Cardinality({h \in BeforeNotFound : Matches(h, req[r])}) <= 1
            /\ \A h \in BeforeNotFound \cup {"notFound"} :
                    <<req[r], h>> \in AnsweringIn <=> h = Last(tried[r])

C11_Witness ==
    \E r \in Slots : \E other \in Slots :
        /\ pc[r] = "ksGetLoad"
        /\ {h \in BeforeNotFound : Matches(h, req[r])} = {"killSwitch"}
        /\ pc[other] = "done"
        /\ req[other].path = <<"swagger", "json">>
        /\ req[other].method = "POST"
        /\ {h \in BeforeNotFound : Matches(h, req[other])} = {}

\* ------------------------------------------------------------------ C12
IsErrorResponse(response, status) ==
    /\ response.kind = "response"
    /\ response.status = status
    /\ DOMAIN response.body = {"json"}
    /\ DOMAIN response.body.json = {"error"}

\* C12: a GET /api/delay or GET /api/kill-switch whose backend read succeeded is
\* answered 200 with what the store held at the read (the default when it held
\* nothing); one whose backend read failed is answered 500 with a JSON {error}
\* body, never 200.
C12_GetAnswersStoredOr500 ==
    \A r \in Slots :
        /\ (pc[r] = "done" /\ IsRequest(r, "GET", PathApiDelay)) =>
            IF seen[r].delayIo = {TRUE}
                THEN IsJsonResponse(resp[r], 200, [delay |-> StoredDelay(seen[r].delay)])
                ELSE IsErrorResponse(resp[r], 500)
        /\ (pc[r] = "done" /\ IsRequest(r, "GET", PathApiKillSwitch)) =>
            IF seen[r].ksIo = {TRUE}
                THEN IsJsonResponse(resp[r], 200, StoredKillSwitch(seen[r].ks))
                ELSE IsErrorResponse(resp[r], 500)

C12_Witness ==
    \E r \in Slots : \E other \in Slots :
        /\ pc[r] = "done"
        /\ IsRequest(r, "GET", PathApiKillSwitch)
        /\ seen[r].ksIo = {FALSE}
        /\ resp[r].status = 500
        /\ pc[other] = "done"
        /\ IsRequest(other, "GET", PathApiDelay)
        /\ seen[other].delayIo = {TRUE}
        /\ resp[other].status = 200

\* ------------------------------------------------------------------ C13
CompletesDelayPost(r) ==
    /\ IsRequest(r, "POST", PathApiDelay)
    /\ pc[r] = "delayPostSave"
    /\ pc'[r] = "done"

\* the effective delay: the posted one, else the loaded one, else 0
EffectiveDelayOf(r) ==
    IF data[r].delay # {} THEN TheResult(data[r].delay)
    ELSE IF LoadedOk(delayLoad[r]) THEN StoredDelay(seen[r].delay)
    ELSE 0

\* the events the task logs in the step
LoggedInStep(r) == SubSeq(trace'[r], Len(trace[r]) + 1, Len(trace'[r]))

C14_FailedSaveAnswers500 ==
    \A r \in Slots :
        (pc[r] = "done" /\ IsRequest(r, "POST", PathApiKillSwitch)
            /\ Happened(r, "error:kill-switch-save-failed")) =>
            IsJsonResponse(resp[r], 500, [error |-> "Failed to save state"])

\* ------------------------------------------------------------------ C15
\* C15: a load whose backend read succeeds returns the value of the last kv.set
\* that succeeded on its key, the default (0; the default kill-switch record)
\* when none has; a kv.set that succeeds leaves its value in the store, one that
\* fails leaves the store as it was.
C15_LoadReturnsLastSuccessfulSave ==
    [][\A r \in Slots :
        /\ (delayLoad[r] = {} /\ delayLoad'[r] # {} /\ seen'[r].delayIo = {TRUE}) =>
            delayLoad'[r] = {[ok |-> TRUE, value |-> {StoredDelay(saved.delay)}]}
        /\ (ksLoad[r] = {} /\ ksLoad'[r] # {} /\ seen'[r].ksIo = {TRUE}) =>
            ksLoad'[r] = {[ok |-> TRUE, value |-> {StoredKillSwitch(saved.ks)}]}
        /\ (pc[r] = "delayPostSave" /\ pc'[r] = "done") =>
            \A a \in acked'.delay :
                /\ kv'.delay = (IF a.saved THEN {a.value} ELSE kv.delay)
                /\ kv'.ks = kv.ks
        /\ (pc[r] = "ksPostSave" /\ pc'[r] = "done") =>
            \A a \in acked'.ks :
                /\ kv'.ks = (IF a.saved THEN {a.value} ELSE kv.ks)
                /\ kv'.delay = kv.delay]_vars

C15_Witness ==
    \E r \in Slots :
        /\ pc[r] = "done"
        /\ IsRequest(r, "GET", PathApiKillSwitch)
        /\ seen[r].ksIo = {TRUE}
        /\ saved.ks = {[enabled |-> TRUE, status |-> 503,
                        headers |-> {<<"X-Custom", "test">>}, body |-> "down"]}
        /\ kv.ks = saved.ks
        /\ IsJsonResponse(resp[r], 200, TheResult(saved.ks))

\* ------------------------------------------------------------------ C16
IsErrorResult(load) == load = {[ok |-> FALSE, value |-> {}]}

\* C16: a load whose backend read failed hands its caller an error Result and
\* one whose read succeeded a value Result; no request that called the store is
\* rejected for it: an API request always ends with a response, also after a
\* failed load or a failed save, and a /proxy/ request goes on after failed loads.
C16_StoreFailuresAreErrorResults ==
    \A r \in Slots :
        /\ seen[r].ksIo = {FALSE} => IsErrorResult(ksLoad[r])
        /\ seen[r].delayIo = {FALSE} => IsErrorResult(delayLoad[r])
        /\ seen[r].ksIo = {TRUE} => LoadedOk(ksLoad[r])
        /\ seen[r].delayIo = {TRUE} => LoadedOk(delayLoad[r])
        /\ (pc[r] = "done" /\ req[r].path \in {PathApiDelay, PathApiKillSwitch}) =>
                resp[r].kind = "response"
        /\ (IsProxyRequest(r) /\ resp[r].kind = "rejected") =>
                \/ Happened(r, "fetch")
                \/ LoadedOk(ksLoad[r]) /\ KillSwitchData(ksLoad[r]).enabled

C16_Witness ==
    \E r \in Slots : \E other \in Slots :
        /\ IsProxyRequest(r)
        /\ seen[r].ksIo = {FALSE}
        /\ seen[r].delayIo = {FALSE}
        /\ pc[r] = "fetch"
        /\ pc[other] = "done"
        /\ IsRequest(other, "POST", PathApiDelay)
        /\ seen[other].delayIo = {FALSE}
        /\ Happened(other, "error:delay-save-failed")
        /\ resp[other].status = 200

\* ------------------------------------------------------------------ C17
\* a POST /api/delay that carried a delay, completed, its save successful
SavedPostedDelay(r) ==
    /\ pc[r] = "done"
    /\ IsRequest(r, "POST", PathApiDelay)
    /\ resp[r].status = 200
    /\ data[r].delay # {}
    /\ Happened(r, "info:delay-updated")

\* C17: once two POST /api/delay with values a and b have both completed with
\* successful saves, the stored delay is the value of the one whose save
\* completed last, which is a or b.
C17_LastWriteWins ==
    \A r \in Slots : \A other \in Slots \ {r} :
        (SavedPostedDelay(r) /\ SavedPostedDelay(other)) =>
            /\ kv.delay \in {data[r].delay, data[other].delay}
            /\ \A a \in acked.delay : kv.delay = {a.value}

C17_Witness ==
    \E r \in Slots : \E other \in Slots \ {r} :
        /\ SavedPostedDelay(r)
        /\ SavedPostedDelay(other)
        /\ r < other
        /\ seen[r].acked = {}
        /\ seen[other].acked = {}
        /\ data[r].delay = {MaxDelay}
        /\ data[other].delay = {0}
        /\ kv.delay = {MaxDelay}

\* ------------------------------------------------------------------ C18
Count(r, event) == Cardinality({i \in DOMAIN trace[r] : trace[r][i] = event})

\* the task's load of the kill-switch record returned a record with enabled=false
LoadedDisabled(r) ==
    /\ LoadedOk(ksLoad[r])
    /\ \A res \in ksLoad[r] : \A record \in res.value : ~record.enabled

\* C18: a /proxy/ request whose two loads are back and whose kill-switch record
\* was loaded with enabled=false waits, then calls fetch, whatever the store
\* holds by then: it never answers the configured response, it ends only after
\* its fetch, and it reads the kill-switch record once.
C18_DecidesFromLoadedRecord ==
    \A r \in Slots :
        (IsProxyRequest(r) /\ LoadedDisabled(r) /\ delayLoad[r] # {}) =>
            /\ pc[r] \in {"sleep", "fetch", "done"}
            /\ pc[r] \in {"fetch", "done"} <=> Happened(r, "fetch")
            /\ ~Happened(r, "log:response:killed")
            /\ Count(r, "kv.get:kill-switch") = 1

C18_Witness ==
    \E r \in Slots :
        /\ IsProxyRequest(r)
        /\ LoadedDisabled(r)
        /\ seen[r].ks = {}
        /\ StoredEnabled
        /\ pc[r] = "done"
        /\ Happened(r, "fetch")
        /\ resp[r] \in UpstreamResponses

\* ------------------------------------------------------------------ C19
\* C19: the stored delay, when there is one, is a number >= 0.
C19_StoredDelayNonNegative == \A d \in kv.delay : d \in Nat

C19_Witness ==
    \E r \in Slots : \E other \in Slots :
        /\ pc[r] = "done"
        /\ IsRequest(r, "POST", PathApiDelay)
        /\ req[r].body = JsonObject([delay |-> {Num(0)}])
        /\ Happened(r, "info:delay-updated")
        /\ pc[other] = "done"
        /\ IsRequest(other, "POST", PathApiDelay)
        /\ req[other].body = JsonObject([delay |-> {Num(-1)}])
        /\ kv.delay = {0}

\* ------------------------------------------------------------------ C20
PostsStatusOutOfRange(r) ==
    /\ IsRequest(r, "POST", PathApiKillSwitch)
    /\ req[r].body.json
    /\ \E v \in req[r].body.fields.status : v.type = "number" /\ v.num \notin 100..599

\* C20: the stored kill-switch record has a status in 100..599, and a POST
\* /api/kill-switch with a status outside that range is answered 400 without a
\* call to the store.
C20_StoredStatusInRange ==
    /\ \A record \in kv.ks : record.status \in 100..599
    /\ \A r \in Slots :
        (pc[r] # "idle" /\ PostsStatusOutOfRange(r)) =>
            /\ pc[r] = "done"
            /\ resp[r].kind = "response"
            /\ resp[r].status = 400
            /\ trace[r] = <<>>


\* ------------------------------------------------------------------ C21
\* the step in which task r reads the delay, or the kill-switch record
ReadsDelay(r) == delayLoad[r] = {} /\ delayLoad'[r] # {}
ReadsKillSwitch(r) == ksLoad[r] = {} /\ ksLoad'[r] # {}

\* C21 as stated: after a restart on the same store, and until the record is
\* saved again, GET /api/delay and GET /api/kill-switch answer 200 with the value
\* last saved before the restart (the default when none was), and a /proxy/
\* request loads that value as its delay and as its kill-switch record.
C21_RestartKeepsConfiguration ==
    [][\A r \in Slots :
        /\ ReadsDelay(r) =>
            \A last \in carried.delay :
                /\ pc[r] = "delayGetLoad" =>
                        IsJsonResponse(resp'[r], 200, [delay |-> StoredDelay(last)])
                /\ pc[r] = "proxyLoad" => DelayMs(delayLoad'[r]) = StoredDelay(last)
        /\ ReadsKillSwitch(r) =>
            \A last \in carried.ks :
                /\ pc[r] = "ksGetLoad" =>
                        IsJsonResponse(resp'[r], 200, StoredKillSwitch(last))
                /\ pc[r] = "proxyLoad" =>
                        KillSwitchData(ksLoad'[r]) = StoredKillSwitch(last)]_vars

\* C21 amended: the same, for the reads of the store that succeed.
C21_RestartKeepsLoadedConfiguration ==
    [][\A r \in Slots :
        /\ (ReadsDelay(r) /\ LoadedOk(delayLoad'[r])) =>
            \A last \in carried.delay :
                /\ pc[r] = "delayGetLoad" =>
                        IsJsonResponse(resp'[r], 200, [delay |-> StoredDelay(last)])
                /\ pc[r] = "proxyLoad" => DelayMs(delayLoad'[r]) = StoredDelay(last)
        /\ (ReadsKillSwitch(r) /\ LoadedOk(ksLoad'[r])) =>
            \A last \in carried.ks :
                /\ pc[r] = "ksGetLoad" =>
                        IsJsonResponse(resp'[r], 200, StoredKillSwitch(last))
                /\ pc[r] = "proxyLoad" =>
                        KillSwitchData(ksLoad'[r]) = StoredKillSwitch(last)]_vars

C21_Witness ==
    \E r \in Slots :
        /\ carried.delay = {{MaxDelay}}
        /\ carried.ks = {{}}
        /\ started = MaxRequests
        /\ pc[r] = "sleep"
        /\ IsProxyRequest(r)
        /\ LoadedOk(delayLoad[r])
        /\ LoadedOk(ksLoad[r])
        /\ DelayMs(delayLoad[r]) = MaxDelay
        /\ KillSwitchData(ksLoad[r]) = DEFAULT_KILL_SWITCH


\* ------------------------------------------------------------------ C22
\* C22: a process started without UPSTREAM hands no request to a handler and
\* answers none.
C22_NoRequestServedWithoutUpstream ==
    env.UPSTREAM = {} =>
        /\ started = 0
        /\ \A r \in Slots : pc[r] = "idle" /\ resp[r] = NoResponse


\* ------------------------------------------------------------------ C23
\* C23: with DELAY set in the environment, a GET /api/delay whose load succeeds
\* while the store holds no delay record answers 200 with the seed, and a /proxy/
\* request whose load succeeds then takes the seed as its delay; a load that finds
\* a record yields the record.
C23_SeedDelayUsedWhileNoRecord ==
    \A r \in Slots : \A seed \in env.DELAY :
        LoadedOk(delayLoad[r]) =>
            /\ (pc[r] = "done" /\ IsRequest(r, "GET", PathApiDelay)) =>
                    IsJsonResponse(resp[r], 200,
                                   [delay |-> OrElse(seen[r].delay, seed)])
            /\ IsProxyRequest(r) => DelayMs(delayLoad[r]) = OrElse(seen[r].delay, seed)


\* ------------------------------------------------------------------ C24
\* the resolution of a reference that starts with "/" against a base URL: the
\* scheme is the base's; a reference "//host/..." names its own host, every other
\* one keeps the base's host and replaces the base's path
Resolved(base, reference, query) ==
    IF Len(reference) >= 2 /\ reference[1] = "" /\ reference[2] # ""
        THEN [scheme |-> base.scheme, host |-> reference[2],
              path |-> SubSeq(reference, 3, Len(reference)), search |-> query]
        ELSE [scheme |-> base.scheme, host |-> base.host, path |-> reference,
              search |-> query]

UnderProxy(path) == Len(path) >= 2 /\ path[1] = "proxy"

C25_ForwardsAndReturnsVerbatim ==
    \A r \in Slots :
        \A answer \in upstream[r].answer :
            /\ ~KillSwitchData(ksLoad[r]).enabled
            /\ Count(r, "fetch") = 1
            /\ upstream[r].call # {}
            /\ \A call \in upstream[r].call :
                /\ call.method = req[r].method
                /\ call.headers = RequestHeaders(req[r])
                /\ call.body = req[r].body
            /\ pc[r] = "done"
            /\ resp[r].kind = "response"
            /\ resp[r].status = answer.status
            /\ resp[r].headers = answer.headers
            /\ resp[r].body = answer.body

C25_Witness ==
    \E r \in Slots :
        /\ pc[r] = "done"
        /\ req[r].method = "POST"
        /\ req[r].path = <<"proxy", "api", "users">>
        /\ req[r].body # NoBody
        /\ RequestHeaders(req[r]) # {}
        /\ \E answer \in upstream[r].answer : answer.status = 404 /\ resp[r].status = 404
        /\ \E call \in upstream[r].call : call.method = "POST" /\ call.body = req[r].body


\* ------------------------------------------------------------------ C26
\* C26: a task whose fetch failed has ended, and the client is sent a response
\* with a status of 500 to 599; no task calls fetch more than once.
C26_FailedFetchIsServerErrorNoRetry ==
    \A r \in Slots :
        /\ upstream[r].failed =>
            /\ pc[r] = "done"
            /\ Served(resp[r]).kind = "response"
            /\ Served(resp[r]).status \in 500..599
            /\ upstream[r].answer = {}
        /\ Count(r, "fetch") <= 1
        /\ Count(r, "fetch") = Cardinality(upstream[r].call)

C26_Witness ==
    \E r \in Slots :
        /\ IsProxyRequest(r)
        /\ upstream[r].failed
        /\ pc[r] = "done"
        /\ resp[r].kind = "rejected"
        /\ Served(resp[r]).status = 500
        /\ Count(r, "fetch") = 1


\* ------------------------------------------------------------------ C27
\* task r has set its timer and the timer is not due
InDelay(r) == pc[r] = "sleep" /\ ~TimerDue(elapsed[r], DelayMs(delayLoad[r]))

\* handleRequest called with request q on task r
Handles(r, q) ==
    \/ SwaggerHandle(r, q)
    \/ SwaggerUiHandle(r, q)
    \/ KillSwitchHandle(r, q)
    \/ DelayHandle(r, q)
    \/ ProxyHandle(r, q)
    \/ NotFoundHandle(r, q)

\* the next step of a task that is under way
Continues(r) ==
    \/ DelayPostLoad(r)
    \/ DelayPostSave(r)
    \/ DelayGetLoad(r)
    \/ KillSwitchPostLoad(r)
    \/ KillSwitchPostSave(r)
    \/ KillSwitchGetLoad(r)
    \/ ProxyLoadKillSwitch(r)
    \/ ProxyLoadDelay(r)
    \/ Tick(r)
    \/ ProxyDelayElapsed(r)
    \/ ProxyFetchReturns(r)
    \/ ProxyFetchFails(r)

\* C27: while a /proxy/ task is in its delay, every request can be handed to an
\* idle task (as long as the run takes requests), every other task that is under
\* way can take its next step, and every other task that has answered can end.
C27_DelaySuspendsOnlyItsTask ==
    \A r \in Slots :
        InDelay(r) =>
            \A other \in Slots \ {r} :
                /\ (pc[other] = "idle" /\ started < MaxRequests) =>
                        \A q \in ProcessRequests : ENABLED Handles(other, q)
                /\ pc[other] \notin {"idle", "done"} => ENABLED Continues(other)
                /\ pc[other] = "done" => ENABLED Finish(other)

\* a POST /api/delay has been answered, and a /proxy/ request has reached its
\* fetch, while another /proxy/ task is still in its delay
C27_Witness ==
    \E r \in Slots : \E other \in Slots :
        /\ InDelay(r)
        /\ elapsed[r] = 0
        /\ pc[other] = "done"
        /\ IsRequest(other, "POST", PathApiDelay)
        /\ resp[other].kind = "response"
        /\ resp[other].status = 200
        /\ kv.delay = {MaxDelay}
        /\ started = MaxRequests


\* ------------------------------------------------------------------ C28
\* the task's request is on one of the two API paths with a method that is
\* neither GET nor POST
OtherMethodOnApiPath(r) ==
    /\ req[r].path \in {PathApiDelay, PathApiKillSwitch}
    /\ req[r].method \notin {"GET", "POST"}

\* C28: a request on /api/delay or /api/kill-switch whose method is neither GET
\* nor POST gets null from the kill-switch handler and the delay handler, makes
\* no store call, and is answered by the not-found handler with 404
\* {"error": "Not found"}.
C28_OtherMethodsOnApiPathsAreNotFound ==
    \A r \in Slots :
        OtherMethodOnApiPath(r) =>
            /\ ~KillSwitchMatches(req[r])
            /\ ~DelayMatches(req[r])
            /\ Last(tried[r]) = "notFound"
            /\ pc[r] = "done"
            /\ trace[r] = <<>>
            /\ seen[r] = NoSeen
            /\ ksLoad[r] = {} /\ delayLoad[r] = {} /\ newState[r] = {}
            /\ resp[r] = JsonResponse([error |-> "Not found"], 404)

\* PUT /api/delay and PUT /api/kill-switch have both been answered
C28_Witness ==
    \E r \in Slots : \E other \in Slots :
        /\ IsRequest(r, "PUT", PathApiDelay)
        /\ IsRequest(other, "PUT", PathApiKillSwitch)
        /\ pc[r] = "done" /\ pc[other] = "done"
        /\ resp[r].status = 404 /\ resp[other].status = 404


\* ------------------------------------------------------------------ C29
\* task r takes the step that calls kv.set for its POST on an API path
SavesIn(r) ==
    /\ \/ pc[r] = "delayPostSave" /\ IsRequest(r, "POST", PathApiDelay)
       \/ pc[r] = "ksPostSave" /\ IsRequest(r, "POST", PathApiKillSwitch)
    /\ pc'[r] = "done"
    /\ \A other \in Slots \ {r} : pc'[other] = pc[other] /\ trace'[other] = trace[other]

\* C29: a step that changes a stored record is the save step of a POST /api/delay
\* or a POST /api/kill-switch (so no GET, no /proxy/ request, no documentation
\* page and no not-found request changes one), and no step makes a key that
\* holds a value hold none.
C29_OnlyPostsWriteNothingDeletes ==
    [][ /\ (kv' # kv => \E r \in Slots : SavesIn(r))
        /\ (kv.delay # {} => kv'.delay # {})
        /\ (kv.ks # {} => kv'.ks # {}) ]_vars

\* both records are stored, and a GET request that read the stored kill-switch
\* record has been answered
C29_Witness ==
    /\ kv.delay # {} /\ kv.ks # {}
    /\ \E r \in Slots :
        /\ pc[r] = "done"
        /\ req[r].method = "GET"
        /\ seen[r].ks = kv.ks
        /\ seen[r].ksIo = {TRUE}


\* ------------------------------------------------------------------ C30
\* task r, serving the given POST, takes a step (any of its loads and saves,
\* whatever the store answers)
StepsOf(r, path) ==
    /\ IsRequest(r, "POST", path)
    /\ pc'[r] # pc[r]

\* C30: no step of a POST /api/delay changes the stored kill-switch record and
\* no step of a POST /api/kill-switch changes the stored delay, whatever other
\* tasks are under way and whether the store call succeeds or fails.
C30_RecordsUpdatedIndependently ==
    [][ \A r \in Slots :
          /\ (StepsOf(r, PathApiDelay) => kv'.ks = kv.ks)
          /\ (StepsOf(r, PathApiKillSwitch) => kv'.delay = kv.delay) ]_vars

\* a POST /api/delay and a POST /api/kill-switch have both saved, and each
\* record is the one its own POST acknowledged
C30_Witness ==
    \E r \in Slots : \E other \in Slots :
        /\ IsRequest(r, "POST", PathApiDelay) /\ pc[r] = "done"
        /\ IsRequest(other, "POST", PathApiKillSwitch) /\ pc[other] = "done"
        /\ \E a \in acked.delay : a.saved /\ kv.delay = {a.value}
        /\ \E a \in acked.ks : a.saved /\ kv.ks = {a.value}


\* ------------------------------------------------------------------ C31
\* task r has answered a POST /api/kill-switch that gave only the field named,
\* and its save succeeded
UpdatedOnly(r, field) ==
    /\ IsRequest(r, "POST", PathApiKillSwitch)
    /\ pc[r] = "done"
    /\ resp[r].kind = "response" /\ resp[r].status = 200
    /\ \A f \in KsFieldNames : data[r][f] # {} <=> f = field
    /\ Happened(r, "info:kill-switch-updated")

\* the record the load of task r handed to handlePost's merge
LoadedRecord(r) ==
    IF LoadedOk(ksLoad[r]) THEN StoredKillSwitch(seen[r].ks) ELSE FALLBACK_KILL_SWITCH

\* C31 as stated: after two POST /api/kill-switch, one giving only enabled and one
\* giving only status, have both saved, the stored record carries both new values,
\* however their steps interleaved.
C31_DisjointUpdatesBothKept ==
    \A r \in Slots : \A other \in Slots \ {r} :
        (UpdatedOnly(r, "enabled") /\ UpdatedOnly(other, "status")) =>
            \E record \in kv.ks :
                /\ {record.enabled} = data[r].enabled
                /\ {record.status} = data[other].status

\* C31 amended: each of the two updates saves its own field together with the
\* other three as its own load returned them (the literals when the load failed),
\* and the stored record after both is the one that was saved last: the other
\* update's field is in it with the value the last saver loaded, which is the
\* new value only when that load came after the other save.
C31_DisjointUpdatesLastSaveWins ==
    \A r \in Slots : \A other \in Slots \ {r} :
        (UpdatedOnly(r, "enabled") /\ UpdatedOnly(other, "status")) =>
            LET mine == resp[r].body.json.state
                theirs == resp[other].body.json.state IN
            /\ {mine.enabled} = data[r].enabled
            /\ \A f \in KsFieldNames \ {"enabled"} : mine[f] = LoadedRecord(r)[f]
            /\ {theirs.status} = data[other].status
            /\ \A f \in KsFieldNames \ {"status"} : theirs[f] = LoadedRecord(other)[f]
            /\ kv.ks \in {{mine}, {theirs}}
            /\ (seen[r].ks = {} /\ seen[other].ks = {}) =>
                    \A record \in kv.ks :
                        \/ record.status = LoadedRecord(r).status
                        \/ record.enabled = LoadedRecord(other).enabled

\* both updates loaded the empty store before either saved; the update of enabled
\* saved first, and the stored record has the new status with enabled as the
\* other update loaded it
C31_Witness ==
    \E r \in Slots : \E other \in Slots \ {r} :
        /\ UpdatedOnly(r, "enabled") /\ UpdatedOnly(other, "status")
        /\ data[r].enabled = {TRUE}
        /\ LoadedOk(ksLoad[r]) /\ LoadedOk(ksLoad[other])
        /\ seen[r].ks = {} /\ seen[other].ks = {}
        /\ \E record \in kv.ks : record.status = 503 /\ ~record.enabled


C33_FailedLoadFallsBackToDefaultRecord ==
    [][\A r \in Slots :
        (CompletesKillSwitchPost(r) /\ ~LoadedOk(ksLoad[r])) =>
            /\ resp'[r].kind = "response"
            /\ resp'[r].status = 200
            /\ \A f \in KsFieldNames :
                data[r][f] = {} => resp'[r].body.json.state[f] = DEFAULT_KILL_SWITCH[f]
            /\ (kv'.ks = {resp'[r].body.json.state} \/ kv' = kv)]_vars


\* ------------------------------------------------------------------ C34
\* handleProxy of task r is past Promise.all, and one of its two loads failed
ProxyLoadFailed(r) ==
    /\ IsProxyRequest(r)
    /\ ksLoad[r] # {} /\ delayLoad[r] # {}
    /\ ~(LoadedOk(ksLoad[r]) /\ LoadedOk(delayLoad[r]))

\* the log events of a task that tell of an error
ErrorEvents ==
    {"error:load-failed", "error:delay-save-failed", "error:kill-switch-save-failed"}

\* C34 as stated: a /proxy/ request one of whose loads failed goes on with the
\* kill-switch not enabled and delay 0 (it is never answered from the
\* kill-switch record and its timer is set to 0), and it has logged the failure.
C34_FailedLoadForwardsAtOnceAndLogs ==
    \A r \in Slots :
        ProxyLoadFailed(r) =>
            /\ ~Happened(r, "log:response:killed")
            /\ DelayMs(delayLoad[r]) = 0
            /\ \E e \in ErrorEvents : Happened(r, e)


\* ------------------------------------------------------------------ C35
\* not JSON, or enabled not a boolean, status not a number, headers not an
\* object of strings, body not a string
BadKillSwitchBody(body) ==
    \/ ~body.json
    \/ \E v \in body.fields.enabled : v.type # "boolean"
    \/ \E v \in body.fields.status : v.type # "number"
    \/ \E v \in body.fields.headers :
            v.type # "object" \/ \E p \in v.obj : p[2].type # "string"
    \/ \E v \in body.fields.body : v.type # "string"

\* C35: a POST /api/kill-switch with such a body is answered 400 in the step that
\* receives it, with no call to the store in its trace and nothing loaded, and both
\* records are as they were.
C35_InvalidKillSwitchPostTouchesNothing ==
    [][\A r \in Slots :
        (pc[r] = "idle" /\ pc'[r] # "idle" /\ req'[r].method = "POST"
            /\ req'[r].path = PathApiKillSwitch /\ BadKillSwitchBody(req'[r].body)) =>
            /\ pc'[r] = "done"
            /\ resp'[r].kind = "response"
            /\ resp'[r].status = 400
            /\ resp'[r].body.json.error \in {"Invalid JSON body", "Invalid request body"}
            /\ trace'[r] = <<>>
            /\ ksLoad'[r] = {} /\ newState'[r] = {}
            /\ kv' = kv]_vars

\* a stored record is still there after a POST with status given as a string was
\* answered 400
C35_Witness ==
    \E r \in Slots :
        /\ pc[r] = "done"
        /\ IsRequest(r, "POST", PathApiKillSwitch)
        /\ req[r].body = KsFields({}, {Str("503")}, {}, {})
        /\ resp[r].status = 400
        /\ trace[r] = <<>>
        /\ \E record \in kv.ks : record.enabled


\* ------------------------------------------------------------------ C36
\* task r completes a save that succeeds, writing the whole value it answers with
WritesInFull(r, key) ==
    /\ pc[r] = (IF key = "delay" THEN "delayPostSave" ELSE "ksPostSave")
    /\ pc'[r] = "done"
    /\ kv'[key] = {IF key = "delay" THEN resp'[r].body.json.delay
                   ELSE resp'[r].body.json.state}
    /\ saved'[key] = kv'[key]

\* C36: each key holds nothing or the whole value of the last save that succeeded
\* on it, and changes only by such a save; a load that succeeds, in a GET, a POST
\* or a /proxy/ request, returns the default when the key holds nothing and else
\* exactly the value the key holds at that moment: the one from before or the one
\* from after a save that runs at the same time, never parts of both.
C36_LoadsReturnOneWholeSavedValue ==
    [][ /\ kv = saved
        /\ \A key \in {"delay", "ks"} :
            kv'[key] # kv[key] => \E r \in Slots : WritesInFull(r, key)
        /\ \A r \in Slots :
            /\ (ReadsDelay(r) /\ LoadedOk(delayLoad'[r])) =>
                /\ TheResult(delayLoad'[r]).value \in {{0}, kv.delay, kv'.delay}
                /\ kv.delay # {} => TheResult(delayLoad'[r]).value = kv.delay
            /\ (ReadsKillSwitch(r) /\ LoadedOk(ksLoad'[r])) =>
                /\ TheResult(ksLoad'[r]).value \in {{DEFAULT_KILL_SWITCH}, kv.ks, kv'.ks}
                /\ kv.ks # {} => TheResult(ksLoad'[r]).value = kv.ks ]_vars

\* a /proxy/ request still in flight loaded the record from before a POST that
\* has since saved all four fields
C36_Witness ==
    \E r \in Slots : \E other \in Slots \ {r} :
        /\ IsProxyRequest(r)
        /\ pc[r] \in {"sleep", "fetch"}
        /\ LoadedOk(ksLoad[r]) /\ LoadedOk(delayLoad[r])
        /\ TheResult(ksLoad[r]).value = {DEFAULT_KILL_SWITCH}
        /\ PostsAllFour(other) /\ pc[other] = "done"
        /\ Happened(other, "info:kill-switch-updated")
        /\ kv.ks = {PostedRecord(req[other].body)}


\* ------------------------------------------------------------------ C37
\* what a task hands on from its load of each key: the key's content when the
\* load succeeded, nothing when it failed
FromOwnLoad(r, key) ==
    IF key = "delay"
        THEN IF LoadedOk(delayLoad[r]) THEN {StoredDelay(seen[r].delay)} ELSE {}
        ELSE IF LoadedOk(ksLoad[r]) THEN {StoredKillSwitch(seen[r].ks)} ELSE {}

\* C37: a GET answers 200 with what its own load found in the store, or 500 when
\* that load failed, and a /proxy/ request answers from the kill-switch record or
\* sets its timer by what its own loads found (the literal record and 0 when they
\* failed); what an earlier POST answered with, saved or not, plays no part.
C37_AnswersFromOwnLoadOnly ==
    \A r \in Slots :
        /\ (IsRequest(r, "GET", PathApiDelay) /\ pc[r] = "done") =>
            IF FromOwnLoad(r, "delay") = {}
                THEN IsErrorResponse(resp[r], 500)
                ELSE \E d \in FromOwnLoad(r, "delay") :
                        IsJsonResponse(resp[r], 200, [delay |-> d])
        /\ (IsRequest(r, "GET", PathApiKillSwitch) /\ pc[r] = "done") =>
            IF FromOwnLoad(r, "ks") = {}
                THEN IsErrorResponse(resp[r], 500)
                ELSE \E record \in FromOwnLoad(r, "ks") :
                        IsJsonResponse(resp[r], 200, record)
        /\ (IsProxyRequest(r) /\ ksLoad[r] # {} /\ delayLoad[r] # {}) =>
            LET record == OrElse(FromOwnLoad(r, "ks"), FALLBACK_KILL_SWITCH)
                delayMs == OrElse(FromOwnLoad(r, "delay"), 0) IN
            /\ Happened(r, "log:response:killed") <=> record.enabled
            /\ Happened(r, "setTimeout") <=> ~record.enabled
            /\ Happened(r, "fetch") => elapsed[r] >= delayMs
            /\ elapsed[r] <= delayMs

\* a POST /api/delay answered with MaxDelay while its save failed, and a GET
\* /api/delay that loaded after that answer returned the stored 0
C37_Witness ==
    \E r \in Slots :
        /\ IsRequest(r, "GET", PathApiDelay) /\ pc[r] = "done"
        /\ LoadedOk(delayLoad[r])
        /\ \E a \in seen[r].acked : ~a.saved /\ a.value = MaxDelay
        /\ IsJsonResponse(resp[r], 200, [delay |-> 0])


\* ------------------------------------------------------------------ C38
\* the places of an event in the log of task r
Places(r, events) == {i \in DOMAIN trace[r] : trace[r][i] \in events}

ResponseEvents == {"log:response", "log:response:killed"}

\* C38 as stated: a /proxy/ request that is past its loads has logged exactly one
\* request event, ahead of its timer and its fetch; one that has produced a
\* response has logged exactly one response event, after the request event and
\* after the fetch; and the response event is the one flagged killed exactly
\* when the request called no fetch.
C38_OneRequestEventOneResponseEvent ==
    \A r \in Slots :
        (IsProxyRequest(r) /\ ksLoad[r] # {} /\ delayLoad[r] # {}) =>
            /\ Cardinality(Places(r, {"log:request"})) = 1
            /\ \A i \in Places(r, {"log:request"}) :
                \A j \in Places(r, {"setTimeout", "fetch"} \cup ResponseEvents) : i < j
            /\ (pc[r] = "done" /\ resp[r].kind = "response") =>
                /\ Cardinality(Places(r, ResponseEvents)) = 1
                /\ \A j \in Places(r, ResponseEvents) :
                    /\ j = Len(trace[r])
                    /\ trace[r][j] = "log:response:killed" <=> Places(r, {"fetch"}) = {}


\* ------------------------------------------------------------------ C39
\* the event loop runs every task whose awaited call has returned: a task that
\* can take a step takes one in the end (store calls and fetch return, timers
\* come due)
SpecLive == Spec /\ \A r \in Slots : WF_vars(Continues(r))

\* C39 as stated: every request handed to handleRequest ends, and ends with a
\* Response.
C39_EveryRequestEndsWithResponse ==
    \A r \in Slots :
        (req[r] # NoRequest) ~> (pc[r] = "done" /\ resp[r].kind = "response")


\* =================================================== the server of src/main.ts
\* The single-file server keeps the configuration in two module-level variables,
\* killSwitchState and delayMs (here mainDelayMs), loaded from Deno KV once at
\* startup; one handler given to Deno.serve answers every request.

\* the stores a process of src/main.ts is started on: empty, holding a delay,
\* holding an enabled kill-switch record
MainStores ==
    { [delay |-> {}, ks |-> {}],
      [delay |-> {MaxDelay}, ks |-> {}],
      [delay |-> {}, ks |-> {[enabled |-> TRUE, status |-> 503, headers |-> {}, body |-> "down"]}] }

\* UPSTREAM is set (the process exits otherwise); DELAY is set or not
MainEnvs ==
    { [UPSTREAM |-> {UpLocal}, DELAY |-> {}], [UPSTREAM |-> {UpLocal}, DELAY |-> {MaxDelay}] }

\* the requests sent to it
MainRequests ==
    { [method |-> m, path |-> p, body |-> NoBody] :
        m \in {"GET"}, p \in {PathApiDelay, PathApiKillSwitch, PathProxyUsers, <<"unknown-path">>} }
    \cup { [method |-> "POST", path |-> PathApiKillSwitch, body |-> b] :
            b \in { InvalidJson,
                    KsFields({Bool(TRUE)}, {}, {}, {}),
                    KsFields({Bool(TRUE)}, {Num(503)}, {Obj(PostedHeaders)}, {Str("down")}) } }
    \cup { [method |-> "POST", path |-> PathApiDelay, body |-> b] :
            b \in { JsonObject([delay |-> {}]), JsonObject([delay |-> {Num(MaxDelay)}]) } }

\* loadKillSwitchState and loadDelayState at startup, and the two folds
InitMain ==
    /\ \E e \in MainEnvs : \E store \in MainStores : \E ksOk \in BOOLEAN : \E delayOk \in BOOLEAN :
        /\ env = e
        /\ kv = store
        /\ saved = store
        /\ killSwitchState = IF ksOk THEN OrElse(store.ks, DEFAULT_KILL_SWITCH)
                             ELSE DEFAULT_KILL_SWITCH
        /\ mainDelayMs = IF delayOk THEN OrElse(store.delay, OrElse(e.DELAY, 0))
                         ELSE OrElse(e.DELAY, 0)
    /\ started = 0
    /\ NoTasks(pc, req, tried, data, ksLoad, delayLoad, newState, elapsed, resp, trace, seen, upstream)
    /\ acked = [delay |-> {}, ks |-> {}]
    /\ carried = [delay |-> {}, ks |-> {}]

\* the handler is called with a request
MainAccept(r, q) ==
    /\ pc[r] = "idle"
    /\ \A other \in Slots : other < r => pc[other] # "idle"
    /\ started < MaxRequests
    /\ started' = started + 1
    /\ req' = [req EXCEPT ![r] = q]

\* safeExtract: the message when the predicate fails on the field, which it does
\* on a field that is not given; the object it returns has no getOrNull
SafeExtractError(opt, ok, message) == IF opt # {} /\ ok THEN {} ELSE {message}

\* the first of the four field checks that fails
MainKillSwitchError(fields) ==
    LET errors == << SafeExtractError(fields.enabled, IsBoolean(fields.enabled),
                                      "enabled must be a boolean"),
                     SafeExtractError(fields.status, IsNumber(fields.status),
                                      "status must be a number"),
                     SafeExtractError(fields.headers, IsStringRecord(fields.headers),
                                      "headers must be a record of strings"),
                     SafeExtractError(fields.body, IsString(fields.body),
                                      "body must be a string") >>
        failing == {i \in 1..4 : errors[i] # {}} IN
    IF failing = {} THEN {} ELSE errors[CHOOSE i \in failing : \A j \in failing : i <= j]

\* POST /api/kill-switch: 400 for a body that is not JSON or fails a field check;
\* else enabledResult.getOrNull() is called on the object of safeExtract and
\* throws TypeError ahead of the assignment to killSwitchState
MainKillSwitchPost(r, q) ==
    /\ q.method = "POST" /\ q.path = PathApiKillSwitch
    /\ MainAccept(r, q)
    /\ Answer(r, IF ~q.body.json THEN JsonResponse([error |-> "Invalid JSON body"], 400)
                 ELSE IF MainKillSwitchError(q.body.fields) # {}
                    THEN JsonResponse([error |-> OrElse(MainKillSwitchError(q.body.fields), "")], 400)
                 ELSE Rejected("TypeError"))
    /\ UNCHANGED <<kv, tried, data, ksLoad, delayLoad, newState, elapsed, trace, seen, acked,
                   saved, env, upstream, carried, killSwitchState, mainDelayMs>>

\* GET /api/kill-switch: the module-level record
MainKillSwitchGet(r, q) ==
    /\ q.method = "GET" /\ q.path = PathApiKillSwitch
    /\ MainAccept(r, q)
    /\ Answer(r, JsonResponse(killSwitchState, 200))
    /\ UNCHANGED <<kv, tried, data, ksLoad, delayLoad, newState, elapsed, trace, seen, acked,
                   saved, env, upstream, carried, killSwitchState, mainDelayMs>>

\* POST /api/delay: 400 for a body that is not JSON or whose delay is not a
\* non-negative number; else delayResult.getOrNull() throws TypeError ahead of
\* the assignment to delayMs
MainDelayPost(r, q) ==
    /\ q.method = "POST" /\ q.path = PathApiDelay
    /\ MainAccept(r, q)
    /\ Answer(r, IF ~q.body.json THEN JsonResponse([error |-> "Invalid JSON body"], 400)
                 ELSE IF SafeExtractError(q.body.fields.delay,
                                          IsNonNegativeNumber(q.body.fields.delay), "x") # {}
                    THEN JsonResponse([error |-> "delay must be a non-negative number"], 400)
                 ELSE Rejected("TypeError"))
    /\ UNCHANGED <<kv, tried, data, ksLoad, delayLoad, newState, elapsed, trace, seen, acked,
                   saved, env, upstream, carried, killSwitchState, mainDelayMs>>

\* GET /api/delay: the module-level delay
MainDelayGet(r, q) ==
    /\ q.method = "GET" /\ q.path = PathApiDelay
    /\ MainAccept(r, q)
    /\ Answer(r, JsonResponse([delay |-> mainDelayMs], 200))
    /\ UNCHANGED <<kv, tried, data, ksLoad, delayLoad, newState, elapsed, trace, seen, acked,
                   saved, env, upstream, carried, killSwitchState, mainDelayMs>>

\* no API route took the request
MainFallsThrough(q) ==
    ~(q.path \in {PathApiDelay, PathApiKillSwitch} /\ q.method \in {"GET", "POST"})

\* a path outside /proxy/: 404
MainNotFound(r, q) ==
    /\ MainFallsThrough(q) /\ ~StartsWithProxy(q.path)
    /\ MainAccept(r, q)
    /\ Answer(r, JsonResponse([error |-> "Not found"], 404))
    /\ UNCHANGED <<kv, tried, data, ksLoad, delayLoad, newState, elapsed, trace, seen, acked,
                   saved, env, upstream, carried, killSwitchState, mainDelayMs>>

\* the response built from the module-level record
MainKilled == NewResponse(Text(killSwitchState.body), killSwitchState.status, killSwitchState.headers)

\* a path under /proxy/: the request log; with killSwitchState.enabled false the
\* timer is set to delayMs, else the second test of killSwitchState.enabled
\* answers at once
MainProxy(r, q) ==
    /\ MainFallsThrough(q) /\ StartsWithProxy(q.path)
    /\ MainAccept(r, q)
    /\ IF ~killSwitchState.enabled
        THEN /\ Log(r, <<"log:request", "setTimeout">>)
             /\ pc' = [pc EXCEPT ![r] = "mainSleep"]
             /\ data' = [data EXCEPT ![r] = [timer |-> mainDelayMs]]
             /\ UNCHANGED resp
        ELSE /\ Log(r, <<"log:request", "log:response:killed">>)
             /\ Answer(r, MainKilled)
             /\ UNCHANGED data
    /\ UNCHANGED <<kv, tried, ksLoad, delayLoad, newState, elapsed, seen, acked,
                   saved, env, upstream, carried, killSwitchState, mainDelayMs>>

\* a millisecond passes for a task inside its setTimeout
MainTick(r) ==
    /\ pc[r] = "mainSleep"
    /\ elapsed[r] < data[r].timer
    /\ elapsed' = [elapsed EXCEPT ![r] = elapsed[r] + 1]
    /\ UNCHANGED <<kv, started, pc, req, tried, data, ksLoad, delayLoad, newState, resp, trace,
                   seen, acked, saved, env, upstream, carried, killSwitchState, mainDelayMs>>

\* the timer resolves: killSwitchState.enabled is read again, from the
\* module-level variable; fetch is called when it is false
MainDelayElapsed(r) ==
    /\ pc[r] = "mainSleep"
    /\ TimerDue(elapsed[r], data[r].timer)
    /\ IF killSwitchState.enabled
        THEN /\ Log(r, <<"log:response:killed">>)
             /\ Answer(r, MainKilled)
             /\ UNCHANGED upstream
        ELSE /\ Log(r, <<"fetch">>)
             /\ pc' = [pc EXCEPT ![r] = "mainFetch"]
             /\ \E base \in env.UPSTREAM :
                    upstream' = [upstream EXCEPT ![r].call = {FetchCall(req[r], base)}]
             /\ UNCHANGED resp
    /\ UNCHANGED <<kv, started, req, tried, data, ksLoad, delayLoad, newState, elapsed,
                   seen, acked, saved, env, carried, killSwitchState, mainDelayMs>>

\* upstream answers: the response log, then the Response handed back
MainFetchReturns(r) ==
    /\ pc[r] = "mainFetch"
    /\ \E response \in UpstreamResponses :
        /\ Answer(r, NewResponse(response.body, response.status, response.headers))
        /\ upstream' = [upstream EXCEPT ![r].answer = {response}]
    /\ Log(r, <<"log:response">>)
    /\ UNCHANGED <<kv, started, req, tried, data, ksLoad, delayLoad, newState, elapsed,
                   seen, acked, saved, env, carried, killSwitchState, mainDelayMs>>

\* fetch rejects
MainFetchFails(r) ==
    /\ pc[r] = "mainFetch"
    /\ Answer(r, Rejected("fetch failed"))
    /\ upstream' = [upstream EXCEPT ![r].failed = TRUE]
    /\ UNCHANGED <<kv, started, req, tried, data, ksLoad, delayLoad, newState, elapsed, trace,
                   seen, acked, saved, env, carried, killSwitchState, mainDelayMs>>

NextMain ==
    \E r \in Slots :
        \/ \E q \in MainRequests : MainKillSwitchPost(r, q)
        \/ \E q \in MainRequests : MainKillSwitchGet(r, q)
        \/ \E q \in MainRequests : MainDelayPost(r, q)
        \/ \E q \in MainRequests : MainDelayGet(r, q)
        \/ \E q \in MainRequests : MainNotFound(r, q)
        \/ \E q \in MainRequests : MainProxy(r, q)
        \/ MainTick(r)
        \/ MainDelayElapsed(r)
        \/ MainFetchReturns(r)
        \/ MainFetchFails(r)
        \/ Finish(r)

SpecMain == InitMain /\ [][NextMain]_vars

\* ------------------------------------------------------------------ C40
\* task r receives a POST /api/kill-switch that gives all four fields, each of
\* its type, with enabled true
PostsEnable(r) ==
    /\ pc[r] = "idle" /\ pc'[r] # "idle"
    /\ req'[r].method = "POST" /\ req'[r].path = PathApiKillSwitch
    /\ req'[r].body.json
    /\ MainKillSwitchError(req'[r].body.fields) = {}
    /\ req'[r].body.fields.enabled = {Bool(TRUE)}

=============================================================================
